---- MODULE Spec2Model ----
(***************************************************************************)
(* A model of the lineage graph engine of OrganoidTracker: the position    *)
(* store (src/autotrack/core/positions.py), the undoable commands of the   *)
(* link and position editor                                                *)
(* (src/organoid_tracker/visualizer/link_and_position_editor.py) and the   *)
(* undo/redo engine that performs them.                                    *)
(*                                                                         *)
(* Coordinates are fixed-point numbers: one pixel is UnitsPerPixel units,  *)
(* so that the interpolated positions of a link over up to four time       *)
(* points are exact.                                                       *)
(***************************************************************************)
EXTENDS Integers, Sequences, FiniteSets, TLC

VARIABLES experiment, undo_queue, redo_queue, pre_states, ghost, last, performed,
          _selected1, _selected2, _min_position, _max_position, slicing

vars == <<experiment, undo_queue, redo_queue, pre_states, ghost, last, performed,
          _selected1, _selected2, _min_position, _max_position, slicing>>

\* ------------------------------------------------------------------ bounds

\* The last time index of the image series; time indices are 0..MaxTime.
MaxTime == 2

\* How many commands the user performs in one session (undo and redo are free).
MaxCommands == 2

\* The longest batch handed to _DeleteLinksAction.
MaxBatch == 2

\* The longest axis of a volume that is sliced, the longest axis of a part and
\* the widest margin.
MaxVolume == 3

MaxPartSize == 2

MaxMargin == 1

\* How many calls a script makes on the position store.
MaxStoreCalls == 2

UnitsPerPixel == 3 * 4

NoTime == 0 - 1

\* ------------------------------------------------------------------ Position

Pos(x, y, z, t) == [x |-> x, y |-> y, z |-> z, t |-> t]

\* None, where the code holds an Optional[Position].
NoPos == Pos(NoTime, NoTime, NoTime, NoTime)

time_point_number(p) == p.t

\* int(x) of a non-negative coordinate.
IntOf(c) == c \div UnitsPerPixel

RECURSIVE Xor(_, _)
Xor(a, b) ==
    IF a = 0 THEN b
    ELSE IF b = 0 THEN a
    ELSE (((a % 2) + (b % 2)) % 2) + (2 * Xor(a \div 2, b \div 2))

\* hash(int(t)) joined to the hash of the coordinates, when there is a time point.
HashWithTime(h, t) == IF t = NoTime THEN h ELSE Xor(h, t)

Position__hash__(p) == HashWithTime(Xor(Xor(IntOf(p.x), IntOf(p.y)), IntOf(p.z)), p.t)

\* abs(a - b) < 0.00001: the fixed-point coordinates are equal. The code compares
\* x twice and never y.
Position__eq__(p, q) ==
    /\ p.x = q.x
    /\ p.x = q.x
    /\ p.z = q.z
    /\ p.t = q.t

\* Two positions are the same key of a dict when their hashes and they are equal.
SameKey(p, q) == Position__hash__(p) = Position__hash__(q) /\ Position__eq__(p, q)

\* ------------------------------------------------------------------ _PositionsAtTimePoint
\* A bucket is a function from its stored positions (the dict's keys) to shapes.

UnknownShape == "unknown"

\* None, where the code holds an Optional[ParticleShape].
NoShape == "none"

EmptyBucket == [p \in {} |-> UnknownShape]

\* The stored key that the dict finds for p, or NoPos.
OneOf(keys) == IF keys = {} THEN NoPos ELSE CHOOSE q \in keys : TRUE

KeyOf(bucket, p) == OneOf({q \in DOMAIN bucket : SameKey(p, q)})

\* self._positions[k] = shape, where k is the stored key (found) or p itself.
PutAt(bucket, found, p, shape) ==
    [q \in (DOMAIN bucket) \cup {IF found = NoPos THEN p ELSE found} |->
        IF q = (IF found = NoPos THEN p ELSE found) THEN shape ELSE bucket[q]]

Put(bucket, p, shape) == PutAt(bucket, KeyOf(bucket, p), p, shape)

ShapeAt(bucket, found) == IF found = NoPos THEN UnknownShape ELSE bucket[found]

bucket_get_shape(bucket, p) == ShapeAt(bucket, KeyOf(bucket, p))

\* A stored position is overwritten also when no shape is given.
add_position_overwrites(bucket, p, shape) ==
    Put(bucket, p, IF shape = NoShape THEN UnknownShape ELSE shape)

add_position(bucket, p, shape) ==
    IF shape = NoShape /\ KeyOf(bucket, p) # NoPos
    THEN bucket
    ELSE Put(bucket, p, IF shape = NoShape THEN UnknownShape ELSE shape)

\* del self._positions[position]; the caller checks that the key is there.
bucket_detach_position(bucket, p) ==
    [q \in (DOMAIN bucket) \ {KeyOf(bucket, p)} |-> bucket[q]]

\* ------------------------------------------------------------------ the world
\* An experiment is a record of the position store, the links, the connections and
\* the annotation layers. A call works on a world: the experiment, the exception
\* that is propagating (if any) and the log of what the call has done so far.

EmptyFun == [p \in {} |-> 0]

EmptyExperiment ==
    [ all_positions |-> [t \in {} |-> EmptyBucket],
      min_time_point_number |-> NoTime,
      max_time_point_number |-> NoTime,
      links |-> {},
      connections |-> {},
      position_data |-> EmptyFun,
      link_data |-> EmptyFun,
      lineage_data |-> EmptyFun ]

World(e) == [e |-> e, raised |-> "none", log |-> <<>>]

Raise(w, error) == [w EXCEPT !.raised = error]

Ok(w) == w.raised = "none"

\* The log of a call: its structural mutations (positions, links), its annotation
\* writes and its calls of the error checker, in the order they happen.
Mutation(w, ps) == [w EXCEPT !.log = Append(@, [ev |-> "mutation", ps |-> ps])]

Annotation(w, ps) == [w EXCEPT !.log = Append(@, [ev |-> "annotation", ps |-> ps])]

\* ------------------------------------------------------------------ PositionCollection

_update_min_max_time_points_for_addition(e, t) ==
    LET lo == IF e.min_time_point_number = NoTime \/ t < e.min_time_point_number
              THEN t ELSE e.min_time_point_number
        hi == IF e.max_time_point_number = NoTime \/ t > e.max_time_point_number
              THEN t ELSE e.max_time_point_number
    IN [e EXCEPT !.min_time_point_number = lo, !.max_time_point_number = hi]

RECURSIVE ReaddTimePoints(_, _)
ReaddTimePoints(e, ts) ==
    IF ts = {} THEN e
    ELSE LET t == CHOOSE u \in ts : TRUE
         IN ReaddTimePoints(_update_min_max_time_points_for_addition(e, t), ts \ {t})

\* The min and max time point are left as they were.
_update_min_max_time_points_for_removal_skipped(e) == e

_update_min_max_time_points_for_removal(e) ==
    ReaddTimePoints([e EXCEPT !.min_time_point_number = NoTime,
                              !.max_time_point_number = NoTime],
                    DOMAIN e.all_positions)

HasBucket(e, t) == t \in DOMAIN e.all_positions

SetBucket(e, t, bucket) ==
    [e EXCEPT !.all_positions =
        [u \in (DOMAIN e.all_positions) \cup {t} |->
            IF u = t THEN bucket ELSE e.all_positions[u]]]

DelBucket(e, t) ==
    [e EXCEPT !.all_positions = [u \in (DOMAIN e.all_positions) \ {t} |-> e.all_positions[u]]]

of_time_point(e, t) == IF HasBucket(e, t) THEN DOMAIN e.all_positions[t] ELSE {}

exists(e, p) ==
    IF ~HasBucket(e, p.t) THEN FALSE ELSE KeyOf(e.all_positions[p.t], p) # NoPos

get_shape(e, p) ==
    IF ~HasBucket(e, p.t) THEN UnknownShape ELSE bucket_get_shape(e.all_positions[p.t], p)

AllStored(e) == UNION {DOMAIN e.all_positions[t] : t \in DOMAIN e.all_positions}

StoreLen(e) == Cardinality(AllStored(e))

\* A position without a time point is stored under None.
PositionCollection_add_unchecked(w, p, shape) ==
    IF ~Ok(w) THEN w
    ELSE LET e1 == _update_min_max_time_points_for_addition(w.e, p.t)
             bucket == IF HasBucket(e1, p.t) THEN e1.all_positions[p.t] ELSE EmptyBucket
         IN Mutation([w EXCEPT !.e = SetBucket(e1, p.t, add_position(bucket, p, shape))], {p})

PositionCollection_add(w, p, shape) ==
    IF ~Ok(w) THEN w
    ELSE IF p.t = NoTime THEN Raise(w, "ValueError")
    ELSE LET e1 == _update_min_max_time_points_for_addition(w.e, p.t)
             bucket == IF HasBucket(e1, p.t) THEN e1.all_positions[p.t] ELSE EmptyBucket
         IN Mutation([w EXCEPT !.e = SetBucket(e1, p.t, add_position(bucket, p, shape))], {p})

detach_all_for_time_point(w, t) ==
    IF ~Ok(w) THEN w
    ELSE IF HasBucket(w.e, t)
    THEN Mutation([w EXCEPT !.e = _update_min_max_time_points_for_removal(DelBucket(w.e, t))],
                  of_time_point(w.e, t))
    ELSE w

\* The time points are not compared: new_position lands in the bucket of
\* old_position.
PositionCollection_move_position_unchecked(w, old_position, new_position) ==
    IF ~Ok(w) THEN w
    ELSE IF old_position.t = NoTime THEN Raise(w, "ValueError")
    ELSE IF ~HasBucket(w.e, old_position.t) THEN w
    ELSE LET bucket == w.e.all_positions[old_position.t]
             old_shape == bucket_get_shape(bucket, old_position)
         IN IF KeyOf(bucket, old_position) = NoPos
            THEN w
            ELSE Mutation([w EXCEPT !.e = SetBucket(w.e, old_position.t,
                               add_position(bucket_detach_position(bucket, old_position),
                                            new_position, old_shape))],
                          {old_position, new_position})

\* The new position is added without the shape of the old one.
PositionCollection_move_position_drops_shape(w, old_position, new_position) ==
    IF ~Ok(w) THEN w
    ELSE IF old_position.t # new_position.t THEN Raise(w, "ValueError")
    ELSE IF old_position.t = NoTime THEN Raise(w, "ValueError")
    ELSE IF ~HasBucket(w.e, old_position.t) THEN w
    ELSE LET bucket == w.e.all_positions[old_position.t]
         IN IF KeyOf(bucket, old_position) = NoPos
            THEN w
            ELSE Mutation([w EXCEPT !.e = SetBucket(w.e, old_position.t,
                               add_position(bucket_detach_position(bucket, old_position),
                                            new_position, NoShape))],
                          {old_position, new_position})

PositionCollection_move_position(w, old_position, new_position) ==
    IF ~Ok(w) THEN w
    ELSE IF old_position.t # new_position.t THEN Raise(w, "ValueError")
    ELSE IF old_position.t = NoTime THEN Raise(w, "ValueError")
    ELSE IF ~HasBucket(w.e, old_position.t) THEN w
    ELSE LET bucket == w.e.all_positions[old_position.t]
             old_shape == bucket_get_shape(bucket, old_position)
         IN IF KeyOf(bucket, old_position) = NoPos
            THEN w   \* KeyError, caught: nothing was changed
            ELSE Mutation([w EXCEPT !.e = SetBucket(w.e, old_position.t,
                               add_position(bucket_detach_position(bucket, old_position),
                                            new_position, old_shape))],
                          {old_position, new_position})

detach_position(w, p) ==
    IF ~Ok(w) THEN w
    ELSE IF ~HasBucket(w.e, p.t) THEN w
    ELSE LET bucket == w.e.all_positions[p.t]
         IN IF KeyOf(bucket, p) = NoPos THEN Raise(w, "KeyError")
            ELSE LET left == bucket_detach_position(bucket, p)
                 IN Mutation(
                      IF DOMAIN left = {}
                      THEN [w EXCEPT !.e = _update_min_max_time_points_for_removal(DelBucket(w.e, p.t))]
                      ELSE [w EXCEPT !.e = SetBucket(w.e, p.t, left)],
                      {p})

\* ------------------------------------------------------------------ Links, LinkData, PositionData
\* A link is the set of its two positions. The annotation layers map (entity, key)
\* to a value; a key without a value is absent from the mapping.

\* None, where the code holds an optional annotation value (a string).
NoValue == "None"

\* None, where the code holds an optional number.
NoNumber == 0 - 1

Link(a, b) == {a, b}

contains_link(e, a, b) == Link(a, b) \in e.links

find_links_of(e, p) == {q \in UNION e.links : q # p /\ Link(p, q) \in e.links}

find_futures(e, p) == {q \in find_links_of(e, p) : q.t > p.t}

find_pasts(e, p) == {q \in find_links_of(e, p) : q.t < p.t}

contains_position(e, p) == find_links_of(e, p) # {}

Without(f, keys) == [k \in (DOMAIN f) \ keys |-> f[k]]

With(f, k, v) == [j \in (DOMAIN f) \cup {k} |-> IF j = k THEN v ELSE f[j]]

get_position_data(e, p, key) ==
    IF <<p, key>> \in DOMAIN e.position_data THEN e.position_data[<<p, key>>] ELSE NoValue

set_position_data(w, p, key, value) ==
    IF ~Ok(w) THEN w
    ELSE IF value = NoValue
    THEN Annotation([w EXCEPT !.e.position_data = Without(@, {<<p, key>>})], {p})
    ELSE Annotation([w EXCEPT !.e.position_data = With(@, <<p, key>>, value)], {p})

\* An error is the number of its code; None is NoNumber. The annotations "error"
\* and "suppressed_error" hold numbers.
get_position_number(e, p, key) ==
    IF <<p, key>> \in DOMAIN e.position_data THEN e.position_data[<<p, key>>] ELSE NoNumber

set_position_number(w, p, key, value) ==
    IF ~Ok(w) THEN w
    ELSE IF value = NoNumber
    THEN Annotation([w EXCEPT !.e.position_data = Without(@, {<<p, key>>})], {p})
    ELSE Annotation([w EXCEPT !.e.position_data = With(@, <<p, key>>, value)], {p})

find_all_data_of_position(e, p) ==
    LET keys == {k[2] : k \in {j \in DOMAIN e.position_data : j[1] = p}}
    IN [key \in keys |-> e.position_data[<<p, key>>]]

get_link_data(e, a, b, key) ==
    IF <<Link(a, b), key>> \in DOMAIN e.link_data THEN e.link_data[<<Link(a, b), key>>] ELSE NoNumber

set_link_data(w, a, b, key, value) ==
    IF ~Ok(w) THEN w
    ELSE IF value = NoNumber
    THEN Annotation([w EXCEPT !.e.link_data = Without(@, {<<Link(a, b), key>>})], {a, b})
    ELSE Annotation([w EXCEPT !.e.link_data = With(@, <<Link(a, b), key>>, value)], {a, b})

find_all_data_of_link(e, a, b) ==
    LET keys == {k[2] : k \in {j \in DOMAIN e.link_data : j[1] = Link(a, b)}}
    IN [key \in keys |-> e.link_data[<<Link(a, b), key>>]]

find_all_links_with_data(e, key) == {k[1] : k \in {j \in DOMAIN e.link_data : j[2] = key}}

add_link(w, a, b) ==
    IF ~Ok(w) THEN w
    ELSE Mutation([w EXCEPT !.e.links = @ \cup {Link(a, b)}], {a, b})

\* The link stays where it is.
remove_link_keeps_link(w, a, b) ==
    IF ~Ok(w) THEN w
    ELSE IF ~contains_link(w.e, a, b) THEN Raise(w, "NotFound")
    ELSE Mutation(w, {a, b})

\* Fails when the link is absent; the annotations of a removed link are pruned.
remove_link(w, a, b) ==
    IF ~Ok(w) THEN w
    ELSE IF ~contains_link(w.e, a, b) THEN Raise(w, "NotFound")
    ELSE Mutation([w EXCEPT !.e.links = @ \ {Link(a, b)},
                            !.e.link_data = Without(@, {k \in DOMAIN @ : k[1] = Link(a, b)})],
                  {a, b})

add_connection(w, a, b) ==
    IF ~Ok(w) THEN w ELSE Mutation([w EXCEPT !.e.connections = @ \cup {Link(a, b)}], {a, b})

remove_connection(w, a, b) ==
    IF ~Ok(w) THEN w ELSE Mutation([w EXCEPT !.e.connections = @ \ {Link(a, b)}], {a, b})

contains_connection(e, a, b) == Link(a, b) \in e.connections

\* ------------------------------------------------------------------ Experiment

\* Removes the position from the store, with its links and with the annotations of
\* the position and of those links.
remove_position(w, p) ==
    IF ~Ok(w) THEN w
    ELSE LET gone == {l \in w.e.links : p \in l}
             w1 == [w EXCEPT !.e.links = @ \ gone,
                             !.e.link_data = Without(@, {k \in DOMAIN @ : k[1] \in gone}),
                             !.e.position_data = Without(@, {k \in DOMAIN @ : k[1] = p})]
         IN detach_position(Mutation(w1, {p}), p)

RECURSIVE remove_positions(_, _)
remove_positions(w, ps) ==
    IF ps = <<>> THEN w ELSE remove_positions(remove_position(w, Head(ps)), Tail(ps))

Renamed(p, old, new) == IF p = old THEN new ELSE p

\* The link with old replaced by new.
Relinked(l, old, new) == {Renamed(q, old, new) : q \in l}

\* The key of a link annotation after the move.
MovedKey(j, old, new) == <<Relinked(j[1], old, new), j[2]>>

\* The link annotations, with those of the links of old under the links of new.
MovedLinkData(ld, old, new) ==
    LET moved == {k \in DOMAIN ld : old \in k[1]}
    IN [k \in ((DOMAIN ld) \ moved) \cup {MovedKey(j, old, new) : j \in moved} |->
           IF \E j \in moved : MovedKey(j, old, new) = k
           THEN ld[CHOOSE j \in moved : MovedKey(j, old, new) = k]
           ELSE ld[k]]

\* The position annotations, with those of old under new.
MovedPositionData(pd, old, new) ==
    LET moved == {k \in DOMAIN pd : k[1] = old}
    IN [k \in ((DOMAIN pd) \ moved) \cup {<<new, j[2]>> : j \in moved} |->
           IF <<old, k[2]>> \in moved /\ k[1] = new THEN pd[<<old, k[2]>>] ELSE pd[k]]

\* The links and the annotations follow the moved position.
FollowMove(w, old, new) ==
    IF ~Ok(w) THEN w
    ELSE [w EXCEPT !.e.links = {Relinked(l, old, new) : l \in @},
                   !.e.link_data = MovedLinkData(@, old, new),
                   !.e.position_data = MovedPositionData(@, old, new)]

\* Moves the position in the store; the links and the annotations follow it.
move_position(w, old, new) ==
    FollowMove(PositionCollection_move_position(w, old, new), old, new)

\* ------------------------------------------------------------------ helpers of the commands

RECURSIVE SetToSeq(_)
SetToSeq(S) ==
    IF S = {} THEN <<>>
    ELSE LET x == CHOOSE y \in S : TRUE IN <<x>> \o SetToSeq(S \ {x})

SeqToSet(q) == {q[i] : i \in 1..Len(q)}

\* The positions from position1 to position2, one for each time index in between,
\* with linearly interpolated coordinates.
interpolate(position1, position2) ==
    LET d == position2.t - position1.t
        k == IF d < 0 THEN 0 - d ELSE d
        step == IF d < 0 THEN 0 - 1 ELSE 1
        at(i) == Pos(position1.x + (((position2.x - position1.x) * i) \div k),
                     position1.y + (((position2.y - position1.y) * i) \div k),
                     position1.z + (((position2.z - position1.z) * i) \div k),
                     position1.t + (step * i))
    IN IF k < 2 THEN <<position1, position2>>
       ELSE [i \in 1..(k + 1) |->
               IF i = 1 THEN position1 ELSE IF i = k + 1 THEN position2 ELSE at(i - 1)]

\* all_positions[1:-1]
Middle(q) == IF Len(q) <= 2 THEN <<>> ELSE SubSeq(q, 2, Len(q) - 1)

\* The error checker: the call is logged with the positions it was given.
Check(w, ev, ps) == IF ~Ok(w) THEN w ELSE [w EXCEPT !.log = Append(@, [ev |-> ev, ps |-> ps])]

find_errors_in_positions_links_and_all_dividing_cells(w, ps) == Check(w, "check_positions_and_dividing", ps)

find_errors_in_just_these_positions(w, ps) == Check(w, "check_positions", ps)

find_errors_in_all_dividing_cells(w) == Check(w, "check_dividing", {})

\* ------------------------------------------------------------------ FullPositionSnapshot

from_position(e, p) ==
    LET ls == SetToSeq(find_links_of(e, p))
    IN [ position |-> p,
         shape |-> get_shape(e, p),
         position_data |-> find_all_data_of_position(e, p),
         links |-> ls,
         link_data |-> [i \in 1..Len(ls) |-> find_all_data_of_link(e, p, ls[i])] ]

position_with_links(p, ls) ==
    [ position |-> p, shape |-> NoShape, position_data |-> EmptyFun,
      links |-> ls, link_data |-> [i \in 1..Len(ls) |-> EmptyFun] ]

just_position(p) == position_with_links(p, <<>>)

RECURSIVE SetAllPositionData(_, _, _, _)
SetAllPositionData(w, p, data, keys) ==
    IF keys = {} THEN w
    ELSE LET k == CHOOSE j \in keys : TRUE
         IN SetAllPositionData(IF k \in {"error", "suppressed_error"}
                               THEN set_position_number(w, p, k, data[k])
                               ELSE set_position_data(w, p, k, data[k]),
                               p, data, keys \ {k})

RECURSIVE SetAllLinkData(_, _, _, _, _)
SetAllLinkData(w, a, b, data, keys) ==
    IF keys = {} THEN w
    ELSE LET k == CHOOSE j \in keys : TRUE
         IN SetAllLinkData(set_link_data(w, a, b, k, data[k]), a, b, data, keys \ {k})

RECURSIVE RestoreLinks(_, _, _)
RestoreLinks(w, snap, i) ==
    IF i > Len(snap.links) THEN w
    ELSE LET w1 == add_link(w, snap.position, snap.links[i])
             w2 == SetAllLinkData(w1, snap.position, snap.links[i],
                                  snap.link_data[i], DOMAIN snap.link_data[i])
         IN RestoreLinks(w2, snap, i + 1)

restore(w, snap) ==
    LET w1 == PositionCollection_add(w, snap.position, snap.shape)
        w2 == SetAllPositionData(w1, snap.position, snap.position_data, DOMAIN snap.position_data)
    IN RestoreLinks(w2, snap, 1)

\* ------------------------------------------------------------------ markers

upper(str) ==
    CASE str = "dead" -> "DEAD"
      [] str = "out_of_view" -> "OUT_OF_VIEW"
      [] str = "stem" -> "STEM"
      [] str = "paneth" -> "PANETH"
      [] str = "goes_into_view" -> "GOES_INTO_VIEW"
      [] str = "unsure" -> "UNSURE"
      [] OTHER -> str

lower(str) ==
    CASE str = "DEAD" -> "dead"
      [] str = "OUT_OF_VIEW" -> "out_of_view"
      [] str = "STEM" -> "stem"
      [] str = "PANETH" -> "paneth"
      [] str = "GOES_INTO_VIEW" -> "goes_into_view"
      [] str = "UNSURE" -> "unsure"
      [] OTHER -> str

\* The names of the members of EndMarker.
EndMarker == {"DEAD", "OUT_OF_VIEW"}

get_track_end_marker(e, p) ==
    LET ending_str == get_position_data(e, p, "ending")
    IN IF ending_str = NoValue THEN NoValue ELSE upper(ending_str)

set_track_end_marker(w, p, end_marker) ==
    IF end_marker = NoValue
    THEN set_position_data(w, p, "ending", NoValue)
    ELSE set_position_data(w, p, "ending", lower(end_marker))

\* The names of the members of StartMarker.
StartMarker == {"GOES_INTO_VIEW", "UNSURE"}

get_track_start_marker(e, p) ==
    LET starting_str == get_position_data(e, p, "starting")
    IN IF starting_str = NoValue THEN NoValue ELSE upper(starting_str)

\* The end marker is written instead.
set_track_start_marker_as_ending(w, p, start_marker) ==
    IF start_marker = NoValue
    THEN set_position_data(w, p, "ending", NoValue)
    ELSE set_position_data(w, p, "ending", lower(start_marker))

set_track_start_marker(w, p, start_marker) ==
    IF start_marker = NoValue
    THEN set_position_data(w, p, "starting", NoValue)
    ELSE set_position_data(w, p, "starting", lower(start_marker))

find_all_positions_with_data(e, key) ==
    {k[1] : k \in {j \in DOMAIN e.position_data : j[2] = key}}

\* Suppressed errors are yielded too.
find_errored_positions_unfiltered(e) == find_all_positions_with_data(e, "error")

find_errored_positions(e) ==
    {position \in find_all_positions_with_data(e, "error") :
        get_position_number(e, position, "suppressed_error")
            # get_position_number(e, position, "error")}

\* Every error is held to be suppressed once any error is.
get_error_marker_blanket(e, position) ==
    IF get_position_number(e, position, "error") = NoNumber THEN NoNumber
    ELSE IF get_position_number(e, position, "suppressed_error") # NoNumber THEN NoNumber
    ELSE get_position_number(e, position, "error")

get_error_marker(e, position) ==
    IF get_position_number(e, position, "error") = NoNumber THEN NoNumber
    ELSE IF get_position_number(e, position, "suppressed_error")
                = get_position_number(e, position, "error")
    THEN NoNumber
    ELSE get_position_number(e, position, "error")

\* The suppressed error takes the place of the error.
suppress_error_marker_overwrites(w, position, error) ==
    set_position_number(w, position, "error", error)

suppress_error_marker(w, position, error) ==
    set_position_number(w, position, "suppressed_error", error)

is_error_suppressed(e, position, error) ==
    get_position_number(e, position, "suppressed_error") = error

set_error_marker(w, position, error) ==
    set_position_number(w, position, "error", error)

UNCERTAIN_MARKER == "uncertain"

get_position_type(e, p) ==
    LET type == get_position_data(e, p, "type")
    IN IF type = NoValue THEN NoValue ELSE upper(type)

set_position_type(w, p, type) ==
    set_position_data(w, p, "type", IF type # NoValue THEN upper(type) ELSE NoValue)

get_position_types(e, ps) == [p \in ps |-> get_position_type(e, p)]

\* The color of a lineage is kept under the first position of its track; black is
\* the absence of a color.
Black == "black"

get_color(e, track) == IF track \in DOMAIN e.lineage_data THEN e.lineage_data[track] ELSE Black

set_color(w, track, color) ==
    IF ~Ok(w) THEN w
    ELSE IF color = Black
    THEN Annotation([w EXCEPT !.e.lineage_data = Without(@, {track})], {track})
    ELSE Annotation([w EXCEPT !.e.lineage_data = With(@, track, color)], {track})

\* ------------------------------------------------------------------ the commands
\* A command is a record: its kind and the data its constructor captured.

Command(kind) ==
    [ kind |-> kind, reversed |-> FALSE,
      id |-> 0,            \* which performed command this is (set when it is performed)
      ps |-> <<>>,         \* positions: all_positions, (old, new), (position), ...
      snaps |-> <<>>,      \* FullPositionSnapshots
      pairs |-> <<>>,      \* (position_a, position_b, data) of _DeleteLinksAction
      new |-> NoValue,     \* the value that do sets
      old |-> NoValue,     \* the value that undo sets
      name |-> NoValue,    \* the data name of a flag
      types |-> EmptyFun,  \* _previous_position_types
      probs |-> EmptyFun ] \* old_link_probabilities

ReversedAction(c) == [c EXCEPT !.reversed = ~c.reversed]

\* ---- _InsertLinkAction

InsertLinkAction(position1, position2) ==
    [Command("InsertLink") EXCEPT !.ps = interpolate(position1, position2)]

RECURSIVE AddPositions(_, _)
AddPositions(w, q) ==
    IF q = <<>> THEN w ELSE AddPositions(PositionCollection_add(w, Head(q), NoShape), Tail(q))

RECURSIVE AddLinks(_, _, _)
AddLinks(w, q, i) ==
    IF i > Len(q) THEN w ELSE AddLinks(add_link(w, q[i], q[i - 1]), q, i + 1)

InsertLinkAction_do(c, w) ==
    LET w1 == AddPositions(w, Middle(c.ps))
        w2 == AddLinks(w1, c.ps, 2)
    IN find_errors_in_positions_links_and_all_dividing_cells(w2, SeqToSet(c.ps))

InsertLinkAction_undo(c, w) ==
    LET w1 == IF Len(c.ps) = 2
              THEN remove_link(w, c.ps[1], c.ps[2])
              ELSE remove_positions(w, Middle(c.ps))
    IN find_errors_in_positions_links_and_all_dividing_cells(w1, {c.ps[1], c.ps[Len(c.ps)]})

\* ---- _DeleteLinksAction

DeleteLinksAction(e, position_pairs) ==
    [Command("DeleteLinks") EXCEPT !.pairs =
        [i \in 1..Len(position_pairs) |->
            [ a |-> position_pairs[i][1], b |-> position_pairs[i][2],
              data |-> find_all_data_of_link(e, position_pairs[i][1], position_pairs[i][2]) ]]]

RECURSIVE RemoveLinks(_, _)
RemoveLinks(w, pairs) ==
    IF pairs = <<>> THEN w
    ELSE RemoveLinks(remove_link(w, Head(pairs).a, Head(pairs).b), Tail(pairs))

RECURSIVE ReaddLinks(_, _)
ReaddLinks(w, pairs) ==
    IF pairs = <<>> THEN w
    ELSE LET h == Head(pairs)
             w1 == add_link(w, h.a, h.b)
         IN ReaddLinks(SetAllLinkData(w1, h.a, h.b, h.data, DOMAIN h.data), Tail(pairs))

DeleteLinksAction_do(c, w) == RemoveLinks(w, c.pairs)

\* The links are re-added without their annotations.
RECURSIVE ReaddLinksOnly(_, _)
ReaddLinksOnly(w, pairs) ==
    IF pairs = <<>> THEN w
    ELSE ReaddLinksOnly(add_link(w, Head(pairs).a, Head(pairs).b), Tail(pairs))

DeleteLinksAction_undo_links_only(c, w) == ReaddLinksOnly(w, c.pairs)

DeleteLinksAction_undo(c, w) == ReaddLinks(w, c.pairs)

\* ---- _InsertPositionAction

InsertPositionAction(particle) == [Command("InsertPosition") EXCEPT !.snaps = <<particle>>]

InsertPositionAction_do(c, w) ==
    LET particle == c.snaps[1]
    IN find_errors_in_positions_links_and_all_dividing_cells(
           restore(w, particle), {particle.position} \cup SeqToSet(particle.links))

InsertPositionAction_undo(c, w) ==
    LET particle == c.snaps[1]
    IN find_errors_in_positions_links_and_all_dividing_cells(
           remove_position(w, particle.position), SeqToSet(particle.links))

\* ---- _DeletePositionsAction

DeletePositionsAction(particles) == [Command("DeletePositions") EXCEPT !.snaps = particles]

RECURSIVE CheckLinked(_, _)
CheckLinked(w, particles) ==
    IF particles = <<>> THEN w
    ELSE CheckLinked(find_errors_in_just_these_positions(w, SeqToSet(Head(particles).links)),
                     Tail(particles))

RECURSIVE RestoreAll(_, _)
RestoreAll(w, particles) ==
    IF particles = <<>> THEN w
    ELSE LET particle == Head(particles)
         IN RestoreAll(find_errors_in_just_these_positions(
                           restore(w, particle), {particle.position} \cup SeqToSet(particle.links)),
                       Tail(particles))

DeletePositionsAction_do(c, w) ==
    LET w1 == remove_positions(w, [i \in 1..Len(c.snaps) |-> c.snaps[i].position])
    IN find_errors_in_all_dividing_cells(CheckLinked(w1, c.snaps))

\* The loop over the particles skips the first one.
DeletePositionsAction_undo_skips_first(c, w) ==
    find_errors_in_all_dividing_cells(RestoreAll(w, Tail(c.snaps)))

DeletePositionsAction_undo(c, w) == find_errors_in_all_dividing_cells(RestoreAll(w, c.snaps))

\* ---- _MovePositionAction

\* The constructor raises ValueError when the time points differ.
MovePositionAction_raises(old_position, new_position) ==
    time_point_number(old_position) # time_point_number(new_position)

MovePositionAction(e, old_position, new_position) ==
    [Command("MovePosition") EXCEPT
        !.ps = <<old_position, new_position>>,
        !.probs = [link \in find_links_of(e, old_position) |->
                      get_link_data(e, old_position, link, "link_probability")]]

RECURSIVE ClearLinkProbabilities(_, _, _)
ClearLinkProbabilities(w, p, ls) ==
    IF ls = {} THEN w
    ELSE LET link == CHOOSE l \in ls : TRUE
         IN ClearLinkProbabilities(set_link_data(w, p, link, "link_probability", NoNumber),
                                   p, ls \ {link})

RECURSIVE RestoreLinkProbabilities(_, _, _, _)
RestoreLinkProbabilities(w, p, ls, probs) ==
    IF ls = {} THEN w
    ELSE LET link == CHOOSE l \in ls : TRUE
             value == IF link \in DOMAIN probs THEN probs[link] ELSE NoNumber
         IN RestoreLinkProbabilities(set_link_data(w, p, link, "link_probability", value),
                                     p, ls \ {link}, probs)

\* for link in experiment.links.find_links_of(position): ... = None
ClearLinkProbabilitiesOf(w, p) ==
    IF Ok(w) THEN ClearLinkProbabilities(w, p, find_links_of(w.e, p)) ELSE w

\* for link in experiment.links.find_links_of(position): ... = old_link_probabilities.get(link)
RestoreLinkProbabilitiesOf(w, p, probs) ==
    IF Ok(w) THEN RestoreLinkProbabilities(w, p, find_links_of(w.e, p), probs) ELSE w

\* The link probabilities are kept.
MovePositionAction_do_keeps_probabilities(c, w) ==
    find_errors_in_positions_links_and_all_dividing_cells(
        move_position(w, c.ps[1], c.ps[2]), {c.ps[2]})

MovePositionAction_do(c, w) ==
    find_errors_in_positions_links_and_all_dividing_cells(
        ClearLinkProbabilitiesOf(move_position(w, c.ps[1], c.ps[2]), c.ps[2]), {c.ps[2]})

MovePositionAction_undo(c, w) ==
    find_errors_in_positions_links_and_all_dividing_cells(
        RestoreLinkProbabilitiesOf(move_position(w, c.ps[2], c.ps[1]), c.ps[1], c.probs),
        {c.ps[1]})

\* ---- _MarkLineageEndAction

MarkLineageEndAction(position, marker, old_marker) ==
    [Command("MarkLineageEnd") EXCEPT !.ps = <<position>>, !.new = marker, !.old = old_marker]

MarkLineageEndAction_do(c, w) ==
    find_errors_in_positions_links_and_all_dividing_cells(
        set_track_end_marker(w, c.ps[1], c.new), {c.ps[1]})

MarkLineageEndAction_undo(c, w) ==
    find_errors_in_positions_links_and_all_dividing_cells(
        set_track_end_marker(w, c.ps[1], c.old), {c.ps[1]})

\* ---- _InsertConnectionAction

InsertConnectionAction(position1, position2) ==
    [Command("InsertConnection") EXCEPT !.ps = <<position1, position2>>]

InsertConnectionAction_do(c, w) == add_connection(w, c.ps[1], c.ps[2])

InsertConnectionAction_undo(c, w) == remove_connection(w, c.ps[1], c.ps[2])

\* ---- _SetAllAsType

SetAllAsType(previous_position_types, new_type) ==
    [Command("SetAllAsType") EXCEPT !.types = previous_position_types, !.new = new_type]

RECURSIVE SetTypes(_, _, _)
SetTypes(w, ps, save_name) ==
    IF ps = {} THEN w
    ELSE LET p == CHOOSE q \in ps : TRUE
         IN SetTypes(set_position_type(w, p, save_name), ps \ {p}, save_name)

RECURSIVE ResetTypes(_, _, _)
ResetTypes(w, ps, types) ==
    IF ps = {} THEN w
    ELSE LET p == CHOOSE q \in ps : TRUE
         IN ResetTypes(set_position_type(w, p, types[p]), ps \ {p}, types)

SetAllAsType_do(c, w) == SetTypes(w, DOMAIN c.types, c.new)

SetAllAsType_undo(c, w) == ResetTypes(w, DOMAIN c.types, c.types)

\* ---- _SetLineageColor

SetLineageColor(track, old_color, new_color) ==
    [Command("SetLineageColor") EXCEPT !.ps = <<track>>, !.old = old_color, !.new = new_color]

SetLineageColor_do(c, w) == set_color(w, c.ps[1], c.new)

SetLineageColor_undo(c, w) == set_color(w, c.ps[1], c.old)

\* ---- _OverwritePositionAction

OverwritePositionAction(new_particle, old_particle) ==
    [Command("OverwritePosition") EXCEPT !.snaps = <<new_particle, old_particle>>]

\* do that restores the new particle and leaves the old position where it is.
OverwritePositionAction_do_keeps_old(c, w) ==
    LET new_particle == c.snaps[1]
        old_particle == c.snaps[2]
        w1 == restore(w, new_particle)
        w2 == find_errors_in_just_these_positions(w1, SeqToSet(old_particle.links))
    IN find_errors_in_positions_links_and_all_dividing_cells(w2, {new_particle.position})

OverwritePositionAction_do(c, w) ==
    LET new_particle == c.snaps[1]
        old_particle == c.snaps[2]
        w1 == restore(remove_position(w, old_particle.position), new_particle)
        w2 == find_errors_in_just_these_positions(w1, SeqToSet(old_particle.links))
    IN find_errors_in_positions_links_and_all_dividing_cells(w2, {new_particle.position})

OverwritePositionAction_undo(c, w) ==
    LET new_particle == c.snaps[1]
        old_particle == c.snaps[2]
        w1 == restore(remove_position(w, new_particle.position), old_particle)
        w2 == find_errors_in_just_these_positions(w1, SeqToSet(new_particle.links))
    IN find_errors_in_positions_links_and_all_dividing_cells(w2, {old_particle.position})

\* ---- _MarkPositionAsSomethingAction

MarkPositionAsSomethingAction(position, data_name) ==
    [Command("MarkPositionAsSomething") EXCEPT !.ps = <<position>>, !.name = data_name]

MarkPositionAsSomethingAction_do(c, w) ==
    LET w1 == set_position_data(w, c.ps[1], c.name, "True")
    IN IF c.name = UNCERTAIN_MARKER
       THEN find_errors_in_just_these_positions(w1, {c.ps[1]})
       ELSE w1

\* The undo forgets the error checker.
MarkPositionAsSomethingAction_undo_unchecked(c, w) ==
    set_position_data(w, c.ps[1], c.name, NoValue)

MarkPositionAsSomethingAction_undo(c, w) ==
    LET w1 == set_position_data(w, c.ps[1], c.name, NoValue)
    IN IF c.name = UNCERTAIN_MARKER
       THEN find_errors_in_just_these_positions(w1, {c.ps[1]})
       ELSE w1

\* ---- UndoableAction.do / undo, through ReversedAction

ActionDo(c, w) ==
    CASE c.kind = "InsertLink" -> InsertLinkAction_do(c, w)
      [] c.kind = "DeleteLinks" -> DeleteLinksAction_do(c, w)
      [] c.kind = "InsertPosition" -> InsertPositionAction_do(c, w)
      [] c.kind = "DeletePositions" -> DeletePositionsAction_do(c, w)
      [] c.kind = "MovePosition" -> MovePositionAction_do(c, w)
      [] c.kind = "MarkLineageEnd" -> MarkLineageEndAction_do(c, w)
      [] c.kind = "InsertConnection" -> InsertConnectionAction_do(c, w)
      [] c.kind = "SetAllAsType" -> SetAllAsType_do(c, w)
      [] c.kind = "SetLineageColor" -> SetLineageColor_do(c, w)
      [] c.kind = "OverwritePosition" -> OverwritePositionAction_do(c, w)
      [] c.kind = "MarkPositionAsSomething" -> MarkPositionAsSomethingAction_do(c, w)

ActionUndo(c, w) ==
    CASE c.kind = "InsertLink" -> InsertLinkAction_undo(c, w)
      [] c.kind = "DeleteLinks" -> DeleteLinksAction_undo(c, w)
      [] c.kind = "InsertPosition" -> InsertPositionAction_undo(c, w)
      [] c.kind = "DeletePositions" -> DeletePositionsAction_undo(c, w)
      [] c.kind = "MovePosition" -> MovePositionAction_undo(c, w)
      [] c.kind = "MarkLineageEnd" -> MarkLineageEndAction_undo(c, w)
      [] c.kind = "InsertConnection" -> InsertConnectionAction_undo(c, w)
      [] c.kind = "SetAllAsType" -> SetAllAsType_undo(c, w)
      [] c.kind = "SetLineageColor" -> SetLineageColor_undo(c, w)
      [] c.kind = "OverwritePosition" -> OverwritePositionAction_undo(c, w)
      [] c.kind = "MarkPositionAsSomething" -> MarkPositionAsSomethingAction_undo(c, w)

ReversedAction_do(c, w) == IF c.reversed THEN ActionUndo(c, w) ELSE ActionDo(c, w)

ReversedAction_undo(c, w) == IF c.reversed THEN ActionDo(c, w) ELSE ActionUndo(c, w)

\* ------------------------------------------------------------------ tracks

\* The first position of the track of p: walk into the past while the position
\* has exactly one past link whose other end has exactly one future link.
RECURSIVE TrackStart(_, _)
TrackStart(e, p) ==
    LET pasts == find_pasts(e, p)
    IN IF Cardinality(pasts) # 1 THEN p
       ELSE LET q == CHOOSE r \in pasts : TRUE
            IN IF Cardinality(find_futures(e, q)) # 1 THEN p ELSE TrackStart(e, q)

\* The positions of the track from p on: walk into the future while the position
\* has exactly one future link whose other end has exactly one past link.
RECURSIVE TrackFrom(_, _)
TrackFrom(e, p) ==
    LET futures == find_futures(e, p)
    IN IF Cardinality(futures) # 1 THEN {p}
       ELSE LET n == CHOOSE r \in futures : TRUE
            IN IF Cardinality(find_pasts(e, n)) # 1 THEN {p} ELSE {p} \cup TrackFrom(e, n)

\* The track of a position without links is None.
get_track(e, p) == IF contains_position(e, p) THEN TrackStart(e, p) ELSE NoPos

find_all_positions_in_track_of(e, p) ==
    IF get_track(e, p) = NoPos THEN {p} ELSE TrackFrom(e, TrackStart(e, p))

\* ------------------------------------------------------------------ LinkingTrack
\* A track is named by its first position.

min_time_point_number(e, track) == time_point_number(track)

find_last_position(e, track) ==
    CHOOSE p \in TrackFrom(e, track) :
        \A q \in TrackFrom(e, track) : time_point_number(q) <= time_point_number(p)

max_time_point_number(e, track) == time_point_number(find_last_position(e, track))

\* The tracks that start where this track ends: at a division, or at a merge.
get_next_tracks(e, track) == find_futures(e, find_last_position(e, track))

\* The walk over the next tracks, each track visited once.
RECURSIVE Descending(_, _, _)
Descending(e, todo, visited) ==
    IF todo = {} THEN visited
    ELSE LET track == CHOOSE t \in todo : TRUE
         IN Descending(e, (todo \cup get_next_tracks(e, track)) \ (visited \cup {track}),
                       visited \cup {track})

\* The walk without a visited set: a track is yielded once for every path of next
\* tracks that leads to it.
RECURSIVE WalkEveryPath(_, _)
WalkEveryPath(e, todo) ==
    IF todo = <<>> THEN <<>>
    ELSE <<Head(todo)>>
         \o WalkEveryPath(e, SetToSeq(get_next_tracks(e, Head(todo))) \o Tail(todo))

find_all_descending_tracks_every_path(e, track) == WalkEveryPath(e, <<track>>)

\* include_self = True
find_all_descending_tracks(e, track) == SetToSeq(Descending(e, {track}, {}))

\* ------------------------------------------------------------------ lineage_division_count

\* No end of a track is held to be unexplained.
EndedForUnknownReason_never(e, track, until) == FALSE

\* The end marker is not looked at.
EndedForUnknownReason_ignores_marker(e, track, until) ==
    /\ get_next_tracks(e, track) = {}
    /\ max_time_point_number(e, track) < until

\* The track ended before the window did, without next tracks and without a death.
EndedForUnknownReason(e, track, until) ==
    /\ get_next_tracks(e, track) = {}
    /\ get_track_end_marker(e, find_last_position(e, track)) # "DEAD"
    /\ max_time_point_number(e, track) < until

\* Every track counts as a division.
CountsAsDivision_always(e, track, until) == TRUE

CountsAsDivision(e, track, until) ==
    /\ max_time_point_number(e, track) < until
    /\ Cardinality(get_next_tracks(e, track)) > 1

\* The loop over the tracks; None is NoNumber.
RECURSIVE CountDivisionsIn(_, _, _, _)
CountDivisionsIn(e, tracks, until, division_count) ==
    IF tracks = <<>> THEN division_count
    ELSE IF min_time_point_number(e, Head(tracks)) > until
    THEN CountDivisionsIn(e, Tail(tracks), until, division_count)
    ELSE IF EndedForUnknownReason(e, Head(tracks), until)
    THEN NoNumber
    ELSE CountDivisionsIn(e, Tail(tracks), until,
                          IF CountsAsDivision(e, Head(tracks), until)
                          THEN division_count + 1 ELSE division_count)

get_division_count_in_lineage(e, starting_track, until) ==
    CountDivisionsIn(e, find_all_descending_tracks(e, starting_track), until, 0)

\* ------------------------------------------------------------------ the undo/redo engine
\* undo_queue and redo_queue are the engine's two stacks. pre_states, ghost and
\* last are history variables: pre_states[i] holds the experiment before the do
\* of undo_queue[i]; ghost is the bookkeeping the LIFO claims are stated
\* against (which commands are applied, which are undone, which can never come
\* back); last describes the call that led to the current state: the call, its
\* command, the exception it raised, its log, the experiment before the call
\* (before), the experiment before the do of the command (pre), and the ghost
\* before the call.

NoCommand == Command("none")

Last(op, c, w, before, pre) ==
    [ op |-> op, cmd |-> c, raised |-> w.raised, log |-> w.log,
      before |-> before, pre |-> pre, ghost |-> ghost,
      \* the call is the undo of the command whose do (or redo) was the call before it
      direct |-> op = "undo" /\ last.op \in {"do", "redo"} /\ last.raised = "none"
                     /\ last.cmd.id = c.id,
      \* what a query returned, the last_time_point_number it was given, and the
      \* error code that a call was given
      result |-> NoNumber, until |-> NoTime, error |-> NoNumber,
      \* the set that a query returned, and the families that a call constructed
      found |-> {}, families |-> <<>>,
      \* what == returned for the two families, and their hashes
      equal |-> FALSE, hashes |-> <<>>,
      \* the inside argument that _set_type was given
      inside |-> FALSE ]

Top(q) == q[Len(q)]

Front(q) == SubSeq(q, 1, Len(q) - 1)

Remove(q, x) == SelectSeq(q, LAMBDA y : y # x)

\* The redo stack survives a new command.
UndoRedo_do_commit_keeps_redo(c, w) ==
    /\ performed < MaxCommands
    /\ performed' = performed + 1
    /\ experiment' = w.e
    /\ last' = Last("do", c, w, experiment, experiment)
    /\ IF Ok(w)
       THEN /\ undo_queue' = Append(undo_queue, c)
            /\ redo_queue' = redo_queue
            /\ pre_states' = Append(pre_states, experiment)
            /\ ghost' = [ applied |-> Append(ghost.applied, c.id),
                          undone |-> <<>>,
                          dead |-> ghost.dead \cup SeqToSet(ghost.undone) ]
       ELSE UNCHANGED <<undo_queue, redo_queue, pre_states, ghost>>
    /\ UNCHANGED <<_selected1, _selected2, _min_position, _max_position, slicing>>

\* do, after action.do(experiment) has led to the world w: the command is pushed
\* on the undo stack and the redo stack is cleared.
UndoRedo_do_pushes(c, w) ==
    /\ performed < MaxCommands
    /\ performed' = performed + 1
    /\ experiment' = w.e
    /\ IF Ok(w)
       THEN /\ undo_queue' = Append(undo_queue, c)
            /\ redo_queue' = <<>>
            /\ pre_states' = Append(pre_states, experiment)
            /\ ghost' = [ applied |-> Append(ghost.applied, c.id),
                          undone |-> <<>>,
                          dead |-> ghost.dead \cup SeqToSet(ghost.undone) ]
       ELSE UNCHANGED <<undo_queue, redo_queue, pre_states, ghost>>

UndoRedo_do_stacks(c, w) ==
    /\ UndoRedo_do_pushes(c, w)
    /\ last' = Last("do", c, w, experiment, experiment)

\* In the specifications that do not follow the selection of the editor, the
\* selection is an input of each handler and the two fields stay as they are.
UndoRedo_do_commit(c, w) == UndoRedo_do_stacks(c, w) /\ UNCHANGED <<_selected1, _selected2, _min_position, _max_position, slicing>>

\* The command with the number under which it is performed.
Numbered(c) == [c EXCEPT !.id = performed + 1]

UndoRedo_do(c) ==
    UndoRedo_do_commit(Numbered(c), ReversedAction_do(Numbered(c), World(experiment)))

\* undo, after action.undo(experiment) has led to the world w.
UndoRedo_undo_stacks(c, w) ==
    /\ experiment' = w.e
    /\ last' = Last("undo", c, w, experiment, Top(pre_states))
    /\ undo_queue' = Front(undo_queue)
    /\ pre_states' = Front(pre_states)
    /\ redo_queue' = IF Ok(w) THEN Append(redo_queue, c) ELSE redo_queue
    /\ ghost' = [ghost EXCEPT !.applied = Remove(@, c.id),
                              !.undone = IF Ok(w) THEN Append(@, c.id) ELSE @]
    /\ UNCHANGED performed

UndoRedo_undo_commit(c, w) ==
    UndoRedo_undo_stacks(c, w) /\ UNCHANGED <<_selected1, _selected2, _min_position, _max_position, slicing>>

UndoRedo_undo ==
    /\ undo_queue # <<>>
    /\ UndoRedo_undo_commit(Top(undo_queue),
                            ReversedAction_undo(Top(undo_queue), World(experiment)))

\* redo, after action.do(experiment) has led to the world w.
UndoRedo_redo_stacks(c, w) ==
    /\ experiment' = w.e
    /\ last' = Last("redo", c, w, experiment, experiment)
    /\ redo_queue' = Front(redo_queue)
    /\ undo_queue' = IF Ok(w) THEN Append(undo_queue, c) ELSE undo_queue
    /\ pre_states' = IF Ok(w) THEN Append(pre_states, experiment) ELSE pre_states
    /\ ghost' = [ghost EXCEPT !.undone = Remove(@, c.id),
                              !.applied = IF Ok(w) THEN Append(@, c.id) ELSE @]
    /\ UNCHANGED performed

UndoRedo_redo_commit(c, w) ==
    UndoRedo_redo_stacks(c, w) /\ UNCHANGED <<_selected1, _selected2, _min_position, _max_position, slicing>>

UndoRedo_redo ==
    /\ redo_queue # <<>>
    /\ UndoRedo_redo_commit(Top(redo_queue),
                            ReversedAction_do(Top(redo_queue), World(experiment)))

\* ------------------------------------------------------------------ the user's inputs

\* The mouse is in one of two pixel columns, ten pixels apart, in layer z = 0.
FarColumn == 10 * UnitsPerPixel

MouseXs == {0, FarColumn}

Times == 0..MaxTime

MousePosition(x, t) == Pos(x, 0, 0, t)

\* A selection is a stored position or None.
Selectable == AllStored(experiment) \cup {NoPos}

\* The position the mouse points at: a position of the shown time point, or None.
Hits(t) == of_time_point(experiment, t) \cup {NoPos}

Markers == {"STEM", NoValue}

Flags == {UNCERTAIN_MARKER, "ablated"}

Colors == {"red", Black}

\* The cutoffs (in percent) the user may enter, and the probabilities of the links.
Cutoffs == {10}

Abs(n) == IF n < 0 THEN 0 - n ELSE n

\* distance_um(..., ImageResolution.PIXELS) < 10
MinInsertDistance == 10

TooClose(p, q) ==
    ((p.x - q.x) * (p.x - q.x)) + ((p.y - q.y) * (p.y - q.y)) + ((p.z - q.z) * (p.z - q.z))
        < (MinInsertDistance * UnitsPerPixel) * (MinInsertDistance * UnitsPerPixel)

\* ------------------------------------------------------------------ LinkAndPositionEditor

\* _try_insert, no position selected: a new position at the mouse.
TryInsertPosition ==
    /\ performed < MaxCommands
    /\ \E x \in MouseXs, t \in Times :
           UndoRedo_do(InsertPositionAction(just_position(MousePosition(x, t))))

\* _try_insert, one position selected: a new position linked to it, or the
\* position under the mouse overwritten, or a new position without links.
TryInsertLinked ==
    /\ performed < MaxCommands
    /\ \E s1 \in AllStored(experiment), x \in MouseXs, t \in Times, show_next \in BOOLEAN :
       \E hit \in Hits(t) :
           LET use_hit == hit # NoPos /\ Abs(hit.t - s1.t) = 1
               here == MousePosition(x, t)
               fresh == IF show_next /\ s1.t = t THEN MousePosition(x, t + 1) ELSE here
               mouse_position == IF use_hit THEN hit ELSE fresh
               old_particle == from_position(experiment, hit)
               new_particle ==
                   position_with_links(MousePosition(x, hit.t),
                       <<s1>> \o SelectSeq(old_particle.links, LAMBDA link : link.t # s1.t))
           IN /\ mouse_position.t \in Times
              /\ IF Abs(mouse_position.t - s1.t) = 1
                 THEN IF ~use_hit
                      THEN UndoRedo_do(InsertPositionAction(position_with_links(mouse_position, <<s1>>)))
                      ELSE UndoRedo_do(OverwritePositionAction(new_particle, old_particle))
                 ELSE /\ ~TooClose(here, s1)
                      /\ UndoRedo_do(InsertPositionAction(just_position(here)))

\* _try_insert, two positions selected: a connection (same time point) or a link.
TryInsertBetween ==
    /\ performed < MaxCommands
    /\ \E s1 \in AllStored(experiment), s2 \in AllStored(experiment) :
           /\ ~Position__eq__(s1, s2)
           /\ IF s1.t = s2.t
              THEN /\ ~contains_connection(experiment, s1, s2)
                   /\ UndoRedo_do(InsertConnectionAction(s1, s2))
              ELSE /\ ~contains_link(experiment, s1, s2)
                   /\ UndoRedo_do(InsertLinkAction(s1, s2))

\* _try_delete
TryDelete ==
    /\ performed < MaxCommands
    /\ \E s1 \in AllStored(experiment), s2 \in Selectable :
           /\ ~Position__eq__(s1, s2)
           /\ IF s2 = NoPos
              THEN UndoRedo_do(ReversedAction(InsertPositionAction(from_position(experiment, s1))))
              ELSE IF contains_connection(experiment, s1, s2)
              THEN UndoRedo_do(ReversedAction(InsertConnectionAction(s1, s2)))
              ELSE /\ contains_link(experiment, s1, s2)
                   /\ UndoRedo_do(ReversedAction(InsertLinkAction(s1, s2)))

\* _on_key_press, "shift": move the selected position to the mouse.
MoveSelected ==
    /\ performed < MaxCommands
    /\ \E s1 \in AllStored(experiment), x \in MouseXs :
           /\ ~MovePositionAction_raises(s1, MousePosition(x, s1.t))
           /\ UndoRedo_do(MovePositionAction(experiment, s1, MousePosition(x, s1.t)))

\* _try_set_end_marker
TrySetEndMarker ==
    /\ performed < MaxCommands
    /\ \E s1 \in AllStored(experiment), marker \in EndMarker \cup {NoValue} :
           /\ find_futures(experiment, s1) = {}
           /\ get_track_end_marker(experiment, s1) # marker
           /\ UndoRedo_do(MarkLineageEndAction(s1, marker, get_track_end_marker(experiment, s1)))

\* bool(value) of an optional annotation value
Truthy(value) == value # NoValue /\ value # "False"

\* _try_mark_as
TryMarkAs ==
    /\ performed < MaxCommands
    /\ \E s1 \in AllStored(experiment), flag_name \in Flags, value \in BOOLEAN :
           /\ Truthy(get_position_data(experiment, s1, flag_name)) # value
           /\ IF value
              THEN UndoRedo_do(MarkPositionAsSomethingAction(s1, flag_name))
              ELSE UndoRedo_do(ReversedAction(MarkPositionAsSomethingAction(s1, flag_name)))

Snapshots(ps) == LET q == SetToSeq(ps) IN [i \in 1..Len(q) |-> from_position(experiment, q[i])]

\* _delete_data_of_time_point
DeleteDataOfTimePoint ==
    /\ performed < MaxCommands
    /\ \E t \in Times :
           UndoRedo_do(DeletePositionsAction(Snapshots(of_time_point(experiment, t))))

\* _delete_data_of_multiple_time_points: the user enters the first and the last
\* time point of the range.
RECURSIVE SnapshotsOfRange(_, _)
SnapshotsOfRange(time_point_number_start, time_point_number_end) ==
    IF time_point_number_start > time_point_number_end THEN <<>>
    ELSE Snapshots(of_time_point(experiment, time_point_number_start))
             \o SnapshotsOfRange(time_point_number_start + 1, time_point_number_end)

DeleteDataOfMultipleTimePoints ==
    /\ performed < MaxCommands
    /\ experiment.min_time_point_number # NoTime
    /\ \E time_point_number_start \in
              experiment.min_time_point_number..experiment.max_time_point_number :
       \E time_point_number_end \in
              time_point_number_start..experiment.max_time_point_number :
           UndoRedo_do(DeletePositionsAction(
               SnapshotsOfRange(time_point_number_start, time_point_number_end)))

\* _delete_positions_without_links
DeletePositionsWithoutLinks ==
    /\ performed < MaxCommands
    /\ UndoRedo_do(DeletePositionsAction(
           Snapshots({p \in AllStored(experiment) : ~contains_position(experiment, p)})))

\* The two positions of a link, the earlier one first.
PairOf(link) ==
    LET a == CHOOSE p \in link : \A q \in link : p.t <= q.t
    IN IF Cardinality(link) = 1 THEN <<a, a>> ELSE <<a, CHOOSE q \in link : q # a>>

\* _delete_unlikely_links
DeleteUnlikelyLinks ==
    /\ performed < MaxCommands
    /\ \E cutoff \in Cutoffs :
           LET to_remove == {l \in find_all_links_with_data(experiment, "link_probability") :
                                 experiment.link_data[<<l, "link_probability">>] < cutoff}
               q == SetToSeq(to_remove)
           IN UndoRedo_do(DeleteLinksAction(experiment, [i \in 1..Len(q) |-> PairOf(q[i])]))

\* _set_track_to_type
SetTrackToType ==
    /\ performed < MaxCommands
    /\ \E s1 \in AllStored(experiment), position_type \in Markers :
           UndoRedo_do(SetAllAsType(
               get_position_types(experiment, find_all_positions_in_track_of(experiment, s1)),
               position_type))

\* _set_type_data_of_time_point
SetTypeDataOfTimePoint ==
    /\ performed < MaxCommands
    /\ \E t \in Times, position_type \in Markers :
           UndoRedo_do(SetAllAsType(get_position_types(experiment, of_time_point(experiment, t)),
                                    position_type))

\* _set_color_of_lineage
SetColorOfLineage ==
    /\ performed < MaxCommands
    /\ \E s1 \in AllStored(experiment), color \in Colors :
           LET track == get_track(experiment, s1)
           IN /\ track # NoPos
              /\ UndoRedo_do(SetLineageColor(track, get_color(experiment, track), color))

\* ------------------------------------------------------------------ callers of the commands

\* The pairs a batch of _DeleteLinksAction is drawn from: stored positions of
\* adjacent time points, linked or not.
CandidatePairs ==
    {pair \in AllStored(experiment) \X AllStored(experiment) : pair[2].t = pair[1].t + 1}

Batches == UNION {[1..n -> CandidatePairs] : n \in 1..MaxBatch}

\* A caller performs _DeleteLinksAction on a batch of its choice.
PerformDeleteLinks ==
    /\ performed < MaxCommands
    /\ \E batch \in Batches : UndoRedo_do(DeleteLinksAction(experiment, batch))

\* A caller constructs _MovePositionAction for any two positions, and performs it
\* when the constructor accepts them.
ConstructMovePosition ==
    /\ performed < MaxCommands
    /\ \E old \in AllStored(experiment), x \in MouseXs, t \in Times :
           IF MovePositionAction_raises(old, MousePosition(x, t))
           THEN /\ performed' = performed + 1
                /\ last' = Last("construct", [Command("MovePosition") EXCEPT !.ps = <<old, MousePosition(x, t)>>],
                                Raise(World(experiment), "ValueError"), experiment, experiment)
                /\ UNCHANGED <<experiment, undo_queue, redo_queue, pre_states, ghost,
                               _selected1, _selected2, _min_position, _max_position, slicing>>
           ELSE UndoRedo_do(MovePositionAction(experiment, old, MousePosition(x, t)))

\* ------------------------------------------------------------------ the imported data
\* The importer fills the experiment through add and add_link, and the annotation
\* layers through their setters, before any command is performed.

A(t) == Pos(0, 0, 0, t)

B(t) == Pos(FarColumn, 0, 0, t)

RECURSIVE ImportLinks(_, _, _)
ImportLinks(w, pairs, annotated) ==
    IF pairs = {} THEN w
    ELSE LET pair == CHOOSE q \in pairs : TRUE
             w1 == add_link(w, pair[1], pair[2])
             w2 == IF annotated
                   THEN set_link_data(w1, pair[1], pair[2], "link_probability",
                                      IF pair[2] = A(1) THEN 5 ELSE 90)
                   ELSE w1
             w3 == IF annotated /\ pair[2] = A(1)
                   THEN set_link_data(w2, pair[1], pair[2], "marginal_probability", 7)
                   ELSE w2
         IN ImportLinks(w3, pairs \ {pair}, annotated)

Imported(with_A1, pairs, annotated) ==
    LET w1 == PositionCollection_add(World(EmptyExperiment), A(0), NoShape)
        w2 == IF with_A1
              THEN PositionCollection_add(w1, A(1), IF annotated THEN "ellipse" ELSE NoShape)
              ELSE w1
        w3 == PositionCollection_add(PositionCollection_add(w2, B(1), NoShape), A(2), NoShape)
        w4 == ImportLinks(w3, pairs, annotated)
        w5 == IF annotated
              THEN set_position_data(set_position_data(w4, A(2), "ending", "dead"),
                                     A(0), "type", "STEM")
              ELSE w4
    IN w5.e

Chain == {<<A(0), A(1)>>, <<A(1), A(2)>>}

Division == Chain \cup {<<A(0), B(1)>>}

Datasets ==
    { Imported(TRUE, Division, TRUE), Imported(TRUE, Chain, FALSE),
      Imported(TRUE, {}, FALSE), Imported(FALSE, {}, TRUE) }

NoGhost == [applied |-> <<>>, undone |-> <<>>, dead |-> {}]

\* ---- the slicing of images, of which the editor knows nothing

Slicer3d(start, end, area_of_interest_start, area_of_interest_end) ==
    [ start |-> start, end |-> end,
      area_of_interest_start |-> area_of_interest_start,
      area_of_interest_end |-> area_of_interest_end ]

NoSlicer == Slicer3d(<<>>, <<>>, <<>>, <<>>)

\* No volume is being sliced.
NoSlicing ==
    [ volume_zyx |-> <<>>, image_part_size |-> <<>>, image_part_margin |-> <<>>,
      start |-> <<>>, done |-> TRUE, pending |-> NoSlicer, yielded |-> <<>>,
      stitched |-> [shape |-> <<0, 0, 0>>, at |-> EmptyFun], raised |-> "none" ]

InitEditor(datasets) ==
    /\ experiment \in datasets
    /\ undo_queue = <<>>
    /\ redo_queue = <<>>
    /\ pre_states = <<>>
    /\ ghost = NoGhost
    /\ performed = 0
    /\ _selected1 = NoPos
    /\ _selected2 = NoPos
    /\ _min_position = NoPos
    /\ _max_position = NoPos
    /\ last = [ op |-> "none", cmd |-> NoCommand, raised |-> "none", log |-> <<>>,
                before |-> experiment, pre |-> experiment, ghost |-> NoGhost,
                direct |-> FALSE, result |-> NoNumber, until |-> NoTime,
                error |-> NoNumber, found |-> {}, families |-> <<>>,
                equal |-> FALSE, hashes |-> <<>>, inside |-> FALSE ]

InitFrom(datasets) == InitEditor(datasets) /\ slicing = NoSlicing

Init == InitFrom(Datasets)

Next ==
    \/ TryInsertPosition
    \/ TryInsertLinked
    \/ TryInsertBetween
    \/ TryDelete
    \/ MoveSelected
    \/ TrySetEndMarker
    \/ TryMarkAs
    \/ DeleteDataOfTimePoint
    \/ DeleteDataOfMultipleTimePoints
    \/ DeletePositionsWithoutLinks
    \/ DeleteUnlikelyLinks
    \/ SetTrackToType
    \/ SetTypeDataOfTimePoint
    \/ SetColorOfLineage
    \/ UndoRedo_undo
    \/ UndoRedo_redo

Spec == Init /\ [][Next]_vars

\* Tracking data in which the link of A(0) and A(2) skips a time point: with a
\* position stored where an interpolated position would be, and without.
DatasetsWithGap ==
    { Imported(TRUE, {<<A(0), A(2)>>, <<A(0), B(1)>>}, FALSE),
      Imported(FALSE, {<<A(0), A(2)>>, <<A(0), B(1)>>}, FALSE) }

InitGap == InitFrom(DatasetsWithGap)

\* The editor, as far as it inserts and deletes positions and links.
NextGap ==
    \/ TryInsertBetween
    \/ TryDelete
    \/ UndoRedo_undo
    \/ UndoRedo_redo

SpecGap == InitGap /\ [][NextGap]_vars

\* ---- the deletions that cannot be undone

\* undo_redo.clear(): both stacks are emptied.
UndoRedo_clear(w) == [w EXCEPT !.log = Append(@, [ev |-> "clear", ps |-> {}])]

\* The positions linked, directly or through others, to a position of the set.
RECURSIVE LineageOf(_, _)
LineageOf(e, ps) ==
    LET more == ps \cup UNION {find_links_of(e, p) : p \in ps}
    IN  IF more = ps THEN ps ELSE LineageOf(e, more)

\* lineage_error_finder.delete_problematic_lineages: the lineages with an error
\* that is not suppressed are removed.
delete_problematic_lineages(w) ==
    remove_positions(w, SetToSeq(LineageOf(w.e, find_errored_positions(w.e)
                                                   \cap AllStored(w.e))))

\* links_filter.delete_lineages_not_in_first_time_point: the lineages without a
\* position in the first time point are removed.
delete_lineages_not_in_first_time_point(w) ==
    LET first == {p \in AllStored(w.e) : p.t = w.e.min_time_point_number}
    IN  remove_positions(w, SetToSeq(AllStored(w.e) \ LineageOf(w.e, first)))

\* The handler has run: the user answered the prompt, `cleared` tells whether
\* the history was cleared, and w is the world after the deletion.
Irreversible(op, answer, cleared, w) ==
    /\ performed' = performed + 1
    /\ UNCHANGED <<_selected1, _selected2, _min_position, _max_position, slicing>>
    /\ IF answer
       THEN /\ experiment' = w.e
            /\ last' = Last(op, [Command(op) EXCEPT !.new = "yes"], w, experiment,
                            experiment)
            /\ IF cleared
               THEN /\ undo_queue' = <<>>
                    /\ redo_queue' = <<>>
                    /\ pre_states' = <<>>
                    /\ ghost' = [ applied |-> <<>>, undone |-> <<>>,
                                  dead |-> ghost.dead \cup SeqToSet(ghost.applied)
                                               \cup SeqToSet(ghost.undone) ]
               ELSE UNCHANGED <<undo_queue, redo_queue, pre_states, ghost>>
       ELSE /\ last' = Last(op, [Command(op) EXCEPT !.new = "no"], World(experiment),
                            experiment, experiment)
            /\ UNCHANGED <<experiment, undo_queue, redo_queue, pre_states, ghost>>

\* The history is left as it is.
DeleteTracksWithErrors_keeps_history ==
    /\ performed < MaxCommands
    /\ \E answer \in BOOLEAN :
           Irreversible("_delete_tracks_with_errors", answer, FALSE,
                        delete_problematic_lineages(World(experiment)))

\* _delete_tracks_with_errors
DeleteTracksWithErrors ==
    /\ performed < MaxCommands
    /\ \E answer \in BOOLEAN :
           Irreversible("_delete_tracks_with_errors", answer, TRUE,
                        delete_problematic_lineages(UndoRedo_clear(World(experiment))))

\* _delete_tracks_not_in_first_time_point
DeleteTracksNotInFirstTimePoint ==
    /\ performed < MaxCommands
    /\ \E answer \in BOOLEAN :
           Irreversible("_delete_tracks_not_in_first_time_point", answer, TRUE,
                        delete_lineages_not_in_first_time_point(
                            UndoRedo_clear(World(experiment))))

\* Tracking data with an error on A(1): the chain of A, on which every position
\* is in the lineage of the error, and A(1) and A(2) linked apart from A(0).
DatasetsWithErrors ==
    { set_error_marker(World(Imported(TRUE, Chain, FALSE)), A(1), 4).e,
      set_error_marker(World(Imported(TRUE, {<<A(1), A(2)>>}, FALSE)), A(1), 4).e }

InitIrreversible == InitFrom(DatasetsWithErrors)

\* The editor, as far as it inserts and deletes positions, and deletes tracks
\* for good.
NextIrreversible ==
    \/ TryInsertPosition
    \/ TryDelete
    \/ DeleteTracksWithErrors
    \/ DeleteTracksNotInFirstTimePoint
    \/ UndoRedo_undo
    \/ UndoRedo_redo

SpecIrreversible == InitIrreversible /\ [][NextIrreversible]_vars

\* ------------------------------------------------------------------ the selection of the editor
\* The editor as the user drives it: two positions can be selected by
\* double-clicks, and the keys act on what is selected.

\* _draw_extra: a selected position that is no longer stored is deselected.
_draw_extra(e, selected) ==
    IF selected # NoPos /\ ~exists(e, selected) THEN NoPos ELSE selected

\* _perform_action(action), after action.do(experiment) has led to the world w
\* and the handler has set the selection to s1 and s2: the view is redrawn.
PerformActionIn(c, w, s1, s2) ==
    /\ UndoRedo_do_stacks(c, w)
    /\ _selected1' = _draw_extra(w.e, s1)
    /\ _selected2' = _draw_extra(w.e, s2)
    /\ UNCHANGED <<_min_position, _max_position, slicing>>

PerformAction(c, s1, s2) ==
    PerformActionIn(Numbered(c), ReversedAction_do(Numbered(c), World(experiment)), s1, s2)

\* A handler that returns without performing a command: c holds what was asked.
UpdateStatus(op, c, s1, s2) ==
    /\ last' = Last(op, c, World(experiment), experiment, experiment)
    /\ _selected1' = s1
    /\ _selected2' = s2
    /\ UNCHANGED <<experiment, undo_queue, redo_queue, pre_states, ghost, performed,
                   _min_position, _max_position, slicing>>

Asked(kind, ps, value) == [Command(kind) EXCEPT !.ps = ps, !.new = value]

_on_mouse_click ==
    /\ performed < MaxCommands
    /\ \E dblclick \in BOOLEAN, new_selection \in Selectable :
           IF ~dblclick
           THEN UpdateStatus("_on_mouse_click", Asked("click", <<new_selection>>, NoValue),
                             _selected1, _selected2)
           ELSE IF new_selection = NoPos
           THEN UpdateStatus("_on_mouse_click", Asked("dblclick", <<new_selection>>, NoValue),
                             NoPos, NoPos)
           ELSE IF Position__eq__(new_selection, _selected1)
           THEN UpdateStatus("_on_mouse_click", Asked("dblclick", <<new_selection>>, NoValue),
                             NoPos, _draw_extra(experiment, _selected2))
           ELSE IF Position__eq__(new_selection, _selected2)
           THEN UpdateStatus("_on_mouse_click", Asked("dblclick", <<new_selection>>, NoValue),
                             _draw_extra(experiment, _selected1), NoPos)
           ELSE UpdateStatus("_on_mouse_click", Asked("dblclick", <<new_selection>>, NoValue),
                             _draw_extra(experiment, new_selection),
                             _draw_extra(experiment, _selected1))

_move_to_position ==
    /\ performed < MaxCommands
    /\ \E position \in AllStored(experiment) :
           IF ~Position__eq__(position, _selected1) /\ ~Position__eq__(position, _selected2)
           THEN UpdateStatus("_move_to_position", Asked("move_to", <<position>>, NoValue),
                             _draw_extra(experiment, position),
                             _draw_extra(experiment, _selected1))
           ELSE UpdateStatus("_move_to_position", Asked("move_to", <<position>>, NoValue),
                             _draw_extra(experiment, _selected1),
                             _draw_extra(experiment, _selected2))

\* _try_insert of the insert key, with the mouse at column x of the shown time point t.
_try_insert ==
    /\ performed < MaxCommands
    /\ \E x \in MouseXs, t \in Times, show_next \in BOOLEAN :
       \E hit \in Hits(t) :
           IF _selected1 = NoPos
           THEN PerformAction(InsertPositionAction(just_position(MousePosition(x, t))),
                              MousePosition(x, t), _selected2)
           ELSE IF _selected2 = NoPos
           THEN LET use_hit == hit # NoPos /\ Abs(hit.t - _selected1.t) = 1
                    here == MousePosition(x, t)
                    fresh == IF show_next /\ _selected1.t = t
                             THEN MousePosition(x, t + 1) ELSE here
                    mouse_position == IF use_hit THEN hit ELSE fresh
                    old_particle == from_position(experiment, hit)
                    new_particle ==
                        position_with_links(MousePosition(x, hit.t),
                            <<_selected1>> \o SelectSeq(old_particle.links,
                                                        LAMBDA link : link.t # _selected1.t))
                IN /\ mouse_position.t \in Times
                   /\ IF Abs(mouse_position.t - _selected1.t) = 1
                      THEN IF ~use_hit
                           THEN PerformAction(
                                    InsertPositionAction(
                                        position_with_links(mouse_position, <<_selected1>>)),
                                    mouse_position, NoPos)
                           ELSE PerformAction(OverwritePositionAction(new_particle, old_particle),
                                              MousePosition(x, hit.t), NoPos)
                      ELSE IF TooClose(here, _selected1)
                      THEN UpdateStatus("_try_insert", Asked("insert", <<here>>, NoValue),
                                        _selected1, _selected2)
                      ELSE PerformAction(InsertPositionAction(just_position(here)), here, NoPos)
           ELSE IF _selected1.t = _selected2.t
           THEN IF contains_connection(experiment, _selected1, _selected2)
                THEN UpdateStatus("_try_insert", Asked("insert", <<_selected1, _selected2>>, NoValue),
                                  _selected1, _selected2)
                ELSE PerformAction(InsertConnectionAction(_selected1, _selected2), NoPos, NoPos)
           ELSE IF contains_link(experiment, _selected1, _selected2)
                THEN UpdateStatus("_try_insert", Asked("insert", <<_selected1, _selected2>>, NoValue),
                                  _selected1, _selected2)
                ELSE PerformAction(InsertLinkAction(_selected1, _selected2), NoPos, NoPos)

\* _try_delete of the delete key
_try_delete ==
    /\ performed < MaxCommands
    /\ IF _selected1 = NoPos
       THEN UpdateStatus("_try_delete", Asked("delete", <<>>, NoValue), _selected1, _selected2)
       ELSE IF _selected2 = NoPos
       THEN PerformAction(ReversedAction(InsertPositionAction(from_position(experiment, _selected1))),
                          _selected1, _selected2)
       ELSE IF contains_connection(experiment, _selected1, _selected2)
       THEN PerformAction(ReversedAction(InsertConnectionAction(_selected1, _selected2)),
                          NoPos, NoPos)
       ELSE IF contains_link(experiment, _selected1, _selected2)
       THEN PerformAction(ReversedAction(InsertLinkAction(_selected1, _selected2)), NoPos, NoPos)
       ELSE UpdateStatus("_try_delete", Asked("delete", <<_selected1, _selected2>>, NoValue),
                         _selected1, _selected2)

\* _on_key_press, the shift key: the selected position is moved to the mouse.
_on_key_press_shift ==
    /\ performed < MaxCommands
    /\ \E x \in MouseXs, t \in Times :
           IF _selected1 = NoPos \/ _selected2 # NoPos
           THEN UpdateStatus("_on_key_press", Asked("shift", <<>>, NoValue),
                             _selected1, _selected2)
           ELSE IF _selected1.t # t
           THEN UpdateStatus("_on_key_press", Asked("shift", <<_selected1>>, NoValue),
                             _selected1, _selected2)
           ELSE PerformAction(MovePositionAction(experiment, _selected1, MousePosition(x, t)),
                              NoPos, _selected2)

\* _try_set_end_marker, with no record of the marker that was present.
_try_set_end_marker_forgets_marker ==
    /\ performed < MaxCommands
    /\ \E marker \in EndMarker \cup {NoValue} :
           IF _selected1 = NoPos \/ _selected2 # NoPos
           THEN UpdateStatus("_try_set_end_marker", Asked("set_end_marker", <<>>, marker),
                             _selected1, _selected2)
           ELSE IF find_futures(experiment, _selected1) # {}
           THEN UpdateStatus("_try_set_end_marker", Asked("set_end_marker", <<_selected1>>, marker),
                             _selected1, _selected2)
           ELSE IF get_track_end_marker(experiment, _selected1) = marker
           THEN UpdateStatus("_try_set_end_marker", Asked("set_end_marker", <<_selected1>>, marker),
                             _selected1, _selected2)
           ELSE PerformAction(MarkLineageEndAction(_selected1, marker, NoValue),
                              _selected1, _selected2)

\* _try_set_end_marker
_try_set_end_marker ==
    /\ performed < MaxCommands
    /\ \E marker \in EndMarker \cup {NoValue} :
           IF _selected1 = NoPos \/ _selected2 # NoPos
           THEN UpdateStatus("_try_set_end_marker", Asked("set_end_marker", <<>>, marker),
                             _selected1, _selected2)
           ELSE IF find_futures(experiment, _selected1) # {}
           THEN UpdateStatus("_try_set_end_marker", Asked("set_end_marker", <<_selected1>>, marker),
                             _selected1, _selected2)
           ELSE IF get_track_end_marker(experiment, _selected1) = marker
           THEN UpdateStatus("_try_set_end_marker", Asked("set_end_marker", <<_selected1>>, marker),
                             _selected1, _selected2)
           ELSE PerformAction(MarkLineageEndAction(_selected1, marker,
                                                   get_track_end_marker(experiment, _selected1)),
                              _selected1, _selected2)

\* undo and redo of the editor: the view is redrawn afterwards.
UndoInView(c, w) ==
    /\ UndoRedo_undo_stacks(c, w)
    /\ _selected1' = _draw_extra(w.e, _selected1)
    /\ _selected2' = _draw_extra(w.e, _selected2)
    /\ UNCHANGED <<_min_position, _max_position, slicing>>

EditorUndo ==
    /\ undo_queue # <<>>
    /\ UndoInView(Top(undo_queue), ReversedAction_undo(Top(undo_queue), World(experiment)))

RedoInView(c, w) ==
    /\ UndoRedo_redo_stacks(c, w)
    /\ _selected1' = _draw_extra(w.e, _selected1)
    /\ _selected2' = _draw_extra(w.e, _selected2)
    /\ UNCHANGED <<_min_position, _max_position, slicing>>

EditorRedo ==
    /\ redo_queue # <<>>
    /\ RedoInView(Top(redo_queue), ReversedAction_do(Top(redo_queue), World(experiment)))

\* Tracking data with one link: a cell and its successor, and a cell that
\* appears later without links.
DatasetsOfSelection == { Imported(FALSE, {<<A(0), B(1)>>}, FALSE) }

InitSelection == InitFrom(DatasetsOfSelection)

NextSelection ==
    \/ _on_mouse_click
    \/ _move_to_position
    \/ _try_insert
    \/ _try_delete
    \/ _on_key_press_shift
    \/ _try_set_end_marker
    \/ EditorUndo
    \/ EditorRedo

SpecSelection == InitSelection /\ [][NextSelection]_vars

\* ------------------------------------------------------------------ types of positions in a rectangle
\* The editor PositionsInRectangleType: two clicks define a rectangle, and the
\* positions inside or outside it are given a type.

RectangleYs == {0, UnitsPerPixel}

\* Position(event.xdata, event.ydata, self._z, time_point=self._time_point)
ClickedPositions == {Pos(x, y, 0, t) : x \in MouseXs, y \in RectangleYs, t \in Times}

Min(a, b) == IF a < b THEN a ELSE b

Max(a, b) == IF a > b THEN a ELSE b

\* The pair (self._min_position, self._max_position) that is set.
_set_min_max_position(pos1, pos2) ==
    << Pos(Min(pos1.x, pos2.x), Min(pos1.y, pos2.y), Min(pos1.z, pos2.z), Min(pos1.t, pos2.t)),
       Pos(Max(pos1.x, pos2.x), Max(pos1.y, pos2.y), Max(pos1.z, pos2.z), Max(pos1.t, pos2.t)) >>

\* A handler of this editor that performs no command: what was asked is recorded.
RectangleStatus(op, c, inside, min_position, max_position) ==
    /\ last' = [Last(op, c, World(experiment), experiment, experiment) EXCEPT !.inside = inside]
    /\ _min_position' = min_position
    /\ _max_position' = max_position
    /\ UNCHANGED <<experiment, undo_queue, redo_queue, pre_states, ghost, performed,
                   _selected1, _selected2, slicing>>

PositionsInRectangleType_on_mouse_click ==
    /\ performed < MaxCommands
    /\ \E dblclick \in BOOLEAN, clicked_position \in ClickedPositions :
           IF dblclick
           THEN RectangleStatus("_on_mouse_click", Asked("dblclick", <<clicked_position>>, NoValue),
                                FALSE, _min_position, _max_position)
           ELSE IF \/ (_min_position = NoPos /\ _max_position = NoPos)
                   \/ (_min_position # NoPos /\ _max_position # NoPos)
           THEN RectangleStatus("_on_mouse_click", Asked("click", <<clicked_position>>, NoValue),
                                FALSE, clicked_position, NoPos)
           ELSE IF _min_position # NoPos /\ _max_position = NoPos
           THEN RectangleStatus("_on_mouse_click", Asked("click", <<clicked_position>>, NoValue),
                                FALSE,
                                _set_min_max_position(_min_position, clicked_position)[1],
                                _set_min_max_position(_min_position, clicked_position)[2])
           ELSE RectangleStatus("_on_mouse_click", Asked("click", <<clicked_position>>, NoValue),
                                FALSE, NoPos, NoPos)

\* The positions of every time point are selected, not only those of the rectangle.
_get_selected_positions_of_all_time_points(e, min_position, max_position, inside) ==
    { position \in AllStored(e) :
        LET position_is_inside ==
                IF \/ position.x < min_position.x
                   \/ position.y < min_position.y
                   \/ position.z < min_position.z
                THEN FALSE
                ELSE IF \/ position.x > max_position.x
                        \/ position.y > max_position.y
                        \/ position.z > max_position.z
                THEN FALSE
                ELSE TRUE
        IN position_is_inside = inside }

_get_selected_positions(e, min_position, max_position, inside) ==
    { position \in UNION {of_time_point(e, t) : t \in min_position.t .. max_position.t} :
        LET position_is_inside ==
                IF \/ position.x < min_position.x
                   \/ position.y < min_position.y
                   \/ position.z < min_position.z
                THEN FALSE
                ELSE IF \/ position.x > max_position.x
                        \/ position.y > max_position.y
                        \/ position.z > max_position.z
                THEN FALSE
                ELSE TRUE
        IN position_is_inside = inside }

\* _perform_action(action) of this editor, after action.do(experiment) has led
\* to the world w.
PerformInRectangle(c, w, inside) ==
    /\ UndoRedo_do_pushes(c, w)
    /\ last' = [Last("do", c, w, experiment, experiment) EXCEPT !.inside = inside]
    /\ UNCHANGED <<_selected1, _selected2, _min_position, _max_position, slicing>>

\* _set_type(position_type, inside) of the Insert and the Alt+Insert key
_set_type ==
    /\ performed < MaxCommands
    /\ \E position_type \in Markers, inside \in BOOLEAN :
           IF _min_position = NoPos \/ _max_position = NoPos
           THEN RectangleStatus("_set_type", Asked("set_type", <<>>, position_type), inside,
                                _min_position, _max_position)
           ELSE IF _get_selected_positions(experiment, _min_position, _max_position, inside) = {}
           THEN RectangleStatus("_set_type", Asked("set_type", <<>>, position_type), inside,
                                _min_position, _max_position)
           ELSE PerformInRectangle(
                    Numbered(SetAllAsType(
                        get_position_types(experiment,
                            _get_selected_positions(experiment, _min_position, _max_position,
                                                    inside)),
                        position_type)),
                    ReversedAction_do(
                        Numbered(SetAllAsType(
                            get_position_types(experiment,
                                _get_selected_positions(experiment, _min_position,
                                                        _max_position, inside)),
                            position_type)),
                        World(experiment)),
                    inside)

InitRectangle == InitFrom({Imported(TRUE, Division, TRUE)})

NextRectangle ==
    \/ PositionsInRectangleType_on_mouse_click
    \/ _set_type
    \/ UndoRedo_undo
    \/ UndoRedo_redo

SpecRectangle == InitRectangle /\ [][NextRectangle]_vars

\* ------------------------------------------------------------------ slicing of images
\* A script cuts a volume into parts with get_slices, takes each part out of the
\* image with Slicer3d.slice and stitches the parts together again with
\* Slicer3d.place_slice_in_volume.

\* An array of three axes: its shape and its cells, indexed from 0.
Cells(shape) == (0..(shape[1] - 1)) \X (0..(shape[2] - 1)) \X (0..(shape[3] - 1))

\* An index of a Python slice on an axis of length n: a negative index counts
\* from the end, and an index beyond an end is clipped to it.
SliceIndex(n, i) == IF i < 0 THEN Max(0, i + n) ELSE Min(i, n)

\* The indices that the slice i:j selects on an axis of length n, in order.
SliceIndices(n, i, j) ==
    IF SliceIndex(n, j) > SliceIndex(n, i)
    THEN [k \in 1..(SliceIndex(n, j) - SliceIndex(n, i)) |-> SliceIndex(n, i) + k - 1]
    ELSE <<>>

\* array[start[0]:end[0], start[1]:end[1], start[2]:end[2]]
GetItemOf(array, Z, Y, X) ==
    [ shape |-> <<Len(Z), Len(Y), Len(X)>>,
      at |-> [p \in Cells(<<Len(Z), Len(Y), Len(X)>>) |->
                 array.at[<<Z[p[1] + 1], Y[p[2] + 1], X[p[3] + 1]>>]] ]

GetItem(array, start, end) ==
    GetItemOf(array, SliceIndices(array.shape[1], start[1], end[1]),
                     SliceIndices(array.shape[2], start[2], end[2]),
                     SliceIndices(array.shape[3], start[3], end[3]))

\* An axis of length 1 is stretched to the length that is asked for.
Broadcasts(from, to) == \A axis \in 1..3 : from[axis] = to[axis] \/ from[axis] = 1

SeqToSetOf(q) == {q[k] : k \in 1..Len(q)}

\* array[start[0]:end[0], ...] = value. It raises ValueError when the shape of
\* value cannot be broadcast to the shape of the cells that are assigned.
SetItemOf(array, Z, Y, X, value) ==
    IF ~Broadcasts(value.shape, <<Len(Z), Len(Y), Len(X)>>)
    THEN [array |-> array, raised |-> "ValueError"]
    ELSE [ array |->
             [array EXCEPT !.at =
                 [p \in DOMAIN array.at |->
                     IF p[1] \in SeqToSetOf(Z) /\ p[2] \in SeqToSetOf(Y) /\ p[3] \in SeqToSetOf(X)
                     THEN value.at[<< IF value.shape[1] = 1 THEN 0 ELSE p[1] - Z[1],
                                      IF value.shape[2] = 1 THEN 0 ELSE p[2] - Y[1],
                                      IF value.shape[3] = 1 THEN 0 ELSE p[3] - X[1] >>]
                     ELSE array.at[p]]],
           raised |-> "none" ]

SetItem(array, start, end, value) ==
    SetItemOf(array, SliceIndices(array.shape[1], start[1], end[1]),
                     SliceIndices(array.shape[2], start[2], end[2]),
                     SliceIndices(array.shape[3], start[3], end[3]), value)

Slicer3d_slice(self, image_3d) == GetItem(image_3d, self.start, self.end)

Minus(a, b) == <<a[1] - b[1], a[2] - b[2], a[3] - b[3]>>

Slicer3d_place_slice_in_volume(self, slice, volume) ==
    SetItem(volume, self.area_of_interest_start, self.area_of_interest_end,
            GetItem(slice, Minus(self.area_of_interest_start, self.start),
                           Minus(self.area_of_interest_end, self.start)))

\* start_here and end_here of one axis.
StartHere(start, size, margin, volume) ==
    IF Max(0, start - margin) + size + (2 * margin) > volume
    THEN Max(0, start - margin) - ((Max(0, start - margin) + size + (2 * margin)) - volume)
    ELSE Max(0, start - margin)

EndHere(start, size, margin, volume) ==
    IF Max(0, start - margin) + size + (2 * margin) > volume
    THEN volume
    ELSE Max(0, start - margin) + size + (2 * margin)

\* The slicer that get_slices yields when its loops stand at start (z, y, x).
SlicerAt(start, volume_zyx, image_part_size, image_part_margin) ==
    Slicer3d(
        [axis \in 1..3 |-> StartHere(start[axis], image_part_size[axis],
                                     image_part_margin[axis], volume_zyx[axis])],
        [axis \in 1..3 |-> EndHere(start[axis], image_part_size[axis],
                                   image_part_margin[axis], volume_zyx[axis])],
        start,
        [axis \in 1..3 |-> start[axis] + image_part_size[axis]])

\* The loops of get_slices after a yield: where they stand next, or that they
\* have ended.
Advance(start, volume_zyx, image_part_size) ==
    IF start[3] + image_part_size[3] < volume_zyx[3]
    THEN [start |-> <<start[1], start[2], start[3] + image_part_size[3]>>, done |-> FALSE]
    ELSE IF start[2] + image_part_size[2] < volume_zyx[2]
    THEN [start |-> <<start[1], start[2] + image_part_size[2], 0>>, done |-> FALSE]
    ELSE IF start[1] + image_part_size[1] < volume_zyx[1]
    THEN [start |-> <<start[1] + image_part_size[1], 0, 0>>, done |-> FALSE]
    ELSE [start |-> start, done |-> TRUE]

\* The image of a volume, each voxel with a value of its own, and the empty volume.
ImageOf(volume_zyx) ==
    [ shape |-> volume_zyx,
      at |-> [p \in Cells(volume_zyx) |-> 1 + (100 * p[1]) + (10 * p[2]) + p[3]] ]

EmptyVolume(volume_zyx) == [shape |-> volume_zyx, at |-> [p \in Cells(volume_zyx) |-> 0]]

Triples(S) == S \X S \X S

InitSlicer ==
    /\ InitEditor({EmptyExperiment})
    /\ \E volume_zyx \in Triples(1..MaxVolume), image_part_size \in Triples(1..MaxPartSize),
          image_part_margin \in Triples(0..MaxMargin) :
           slicing = [ volume_zyx |-> volume_zyx, image_part_size |-> image_part_size,
                       image_part_margin |-> image_part_margin,
                       start |-> <<0, 0, 0>>, done |-> FALSE, pending |-> NoSlicer,
                       yielded |-> <<>>, stitched |-> EmptyVolume(volume_zyx),
                       raised |-> "none" ]

EditorUnchanged ==
    UNCHANGED <<experiment, undo_queue, redo_queue, pre_states, ghost, last, performed,
                _selected1, _selected2, _min_position, _max_position>>

\* next() of the generator get_slices: the next slicer is yielded.
get_slices ==
    /\ ~slicing.done
    /\ slicing.raised = "none"
    /\ slicing.pending = NoSlicer
    /\ slicing' = [slicing EXCEPT
           !.pending = SlicerAt(slicing.start, slicing.volume_zyx, slicing.image_part_size,
                                slicing.image_part_margin),
           !.yielded = Append(@, SlicerAt(slicing.start, slicing.volume_zyx,
                                          slicing.image_part_size, slicing.image_part_margin)),
           !.start = Advance(slicing.start, slicing.volume_zyx, slicing.image_part_size).start,
           !.done = Advance(slicing.start, slicing.volume_zyx, slicing.image_part_size).done]
    /\ EditorUnchanged

\* The script takes the part out of the image and places it in the volume.
SliceAndPlace ==
    /\ slicing.pending # NoSlicer
    /\ slicing' = [slicing EXCEPT
           !.pending = NoSlicer,
           !.stitched = Slicer3d_place_slice_in_volume(slicing.pending,
                            Slicer3d_slice(slicing.pending, ImageOf(slicing.volume_zyx)),
                            slicing.stitched).array,
           !.raised = Slicer3d_place_slice_in_volume(slicing.pending,
                            Slicer3d_slice(slicing.pending, ImageOf(slicing.volume_zyx)),
                            slicing.stitched).raised]
    /\ EditorUnchanged

NextSlicer ==
    \/ get_slices
    \/ SliceAndPlace

SpecSlicer == InitSlicer /\ [][NextSlicer]_vars

\* The commands performed by callers that choose the arguments themselves.
NextCalls ==
    \/ PerformDeleteLinks
    \/ ConstructMovePosition
    \/ UndoRedo_undo
    \/ UndoRedo_redo

SpecCalls == Init /\ [][NextCalls]_vars

\* ------------------------------------------------------------------ direct calls of the store
\* A script calls the position store itself, with positions of its choice: the
\* two columns of the first row, and three rows of the first column (the second
\* row is half a pixel below the first, the third a whole pixel), in the first
\* and the last time point, or with no time point.

StoreTimes == {0, MaxTime, NoTime}

HalfPixel == UnitsPerPixel \div 2

StoreRows == {0, HalfPixel, UnitsPerPixel}

StorePositions ==
    {Pos(x, 0, 0, t) : x \in MouseXs, t \in StoreTimes}
    \cup {Pos(0, y, 0, t) : y \in StoreRows, t \in StoreTimes}

Shapes == {NoShape, "ellipse"}

\* The call is recorded with its positions and, for add, its shape argument.
StoreCall(op, ps, shape, w) ==
    /\ performed < MaxStoreCalls
    /\ performed' = performed + 1
    /\ experiment' = w.e
    /\ last' = Last(op, [Command(op) EXCEPT !.ps = ps, !.new = shape], w, experiment, experiment)
    /\ UNCHANGED <<undo_queue, redo_queue, pre_states, ghost, _selected1, _selected2, _min_position, _max_position, slicing>>

StoreAdd ==
    \E p \in StorePositions, shape \in Shapes :
        StoreCall("add", <<p>>, shape, PositionCollection_add(World(experiment), p, shape))

StoreMove ==
    \E old \in StorePositions, new \in StorePositions :
        StoreCall("move_position", <<old, new>>, NoShape,
                  PositionCollection_move_position(World(experiment), old, new))

StoreDetach ==
    \E p \in StorePositions :
        StoreCall("detach_position", <<p>>, NoShape, detach_position(World(experiment), p))

StoreDetachAll ==
    \E t \in Times :
        StoreCall("detach_all_for_time_point", <<Pos(0, 0, 0, t)>>, NoShape,
                  detach_all_for_time_point(World(experiment), t))

InitStore == InitFrom({EmptyExperiment, Imported(TRUE, Division, TRUE)})

NextStore ==
    \/ StoreAdd
    \/ StoreMove
    \/ StoreDetach
    \/ StoreDetachAll
    \/ ConstructMovePosition

SpecStore == InitStore /\ [][NextStore]_vars

\* ------------------------------------------------------------------ lineage analysis
\* A script edits the links and the end markers of an imported lineage tree, and
\* asks for the division count of a lineage within a time window.

\* How many calls the analysis script makes.
MaxLineageCalls == 2

C(t) == Pos(2 * FarColumn, 0, 0, t)

\* The tracked series is one time point longer than the series of the editor.
LastLineageTime == MaxTime + 1

\* A(0) divides into A(1) and B(1), A(1) divides into A(2) and C(2); every branch
\* goes on to the last time point.
LineageTree ==
    {<<A(t), A(t + 1)>> : t \in 0..(LastLineageTime - 1)}
    \cup {<<A(0), B(1)>>} \cup {<<B(t), B(t + 1)>> : t \in 1..(LastLineageTime - 1)}
    \cup {<<A(1), C(2)>>} \cup {<<C(t), C(t + 1)>> : t \in 2..(LastLineageTime - 1)}

\* The links that make two branches merge: the branch of B into that of A, and
\* from there on the branch of A into that of C.
MergeLinks ==
    {<<B(t), A(t + 1)>> : t \in 1..(LastLineageTime - 1)}
    \cup {<<A(t), C(t + 1)>> : t \in 2..(LastLineageTime - 1)}

LineagePositions == UNION {{pair[1], pair[2]} : pair \in LineageTree}

\* The tracking data: the tree, or the tree with a death at the end of the branch
\* of B, or the tree with the branch of B merging into A(2).
ImportedLineage(with_death, with_merge) ==
    IF with_death
    THEN set_track_end_marker(
             ImportLinks(AddPositions(World(EmptyExperiment), SetToSeq(LineagePositions)),
                         LineageTree, FALSE),
             B(LastLineageTime), "DEAD").e
    ELSE ImportLinks(AddPositions(World(EmptyExperiment), SetToSeq(LineagePositions)),
                     IF with_merge THEN LineageTree \cup {<<B(1), A(2)>>} ELSE LineageTree,
                     FALSE).e

\* The time windows end at a time point of the images, or one later.
Windows == 0..(LastLineageTime + 1)

LineageCall(op, ps, w, result, until) ==
    /\ performed' = performed + 1
    /\ experiment' = w.e
    /\ last' = [Last(op, [Command(op) EXCEPT !.ps = ps], w, experiment, experiment)
                  EXCEPT !.result = result, !.until = until]
    /\ UNCHANGED <<undo_queue, redo_queue, pre_states, ghost, _selected1, _selected2, _min_position, _max_position, slicing>>

LineageAddLink ==
    /\ performed < MaxLineageCalls
    /\ \E pair \in MergeLinks :
           /\ ~contains_link(experiment, pair[1], pair[2])
           /\ LineageCall("add_link", <<pair[1], pair[2]>>,
                          add_link(World(experiment), pair[1], pair[2]), NoNumber, NoTime)

LineageRemoveLink ==
    /\ performed < MaxLineageCalls
    /\ \E pair \in LineageTree \cup MergeLinks :
           /\ contains_link(experiment, pair[1], pair[2])
           /\ LineageCall("remove_link", <<pair[1], pair[2]>>,
                          remove_link(World(experiment), pair[1], pair[2]), NoNumber, NoTime)

LineageSetEndMarker ==
    /\ performed < MaxLineageCalls
    /\ \E p \in LineagePositions, marker \in EndMarker :
           LineageCall("set_track_end_marker", <<p>>,
                       set_track_end_marker(World(experiment), p, marker), NoNumber, NoTime)

LineageCountDivisions ==
    /\ performed < MaxLineageCalls
    /\ \E p \in LineagePositions, until \in Windows :
           /\ get_track(experiment, p) = p
           /\ LineageCall("get_division_count_in_lineage", <<p>>, World(experiment),
                          get_division_count_in_lineage(experiment, p, until), until)

InitLineage ==
    InitFrom({ImportedLineage(FALSE, FALSE), ImportedLineage(TRUE, FALSE),
              ImportedLineage(FALSE, TRUE)})

NextLineage ==
    \/ LineageAddLink
    \/ LineageRemoveLink
    \/ LineageSetEndMarker
    \/ LineageCountDivisions

SpecLineage == InitLineage /\ [][NextLineage]_vars

\* ------------------------------------------------------------------ markers of positions
\* A script sets and suppresses error markers, and sets start and end markers, on
\* the positions of an imported experiment.

\* How many calls the marker script makes.
MaxMarkerCalls == 2

\* The codes of two members of Error.
Errors == {4, 5}

\* The imported experiment, in which the error 4 of A(1) may have been suppressed.
ImportedMarkers(suppressed) ==
    IF suppressed
    THEN set_error_marker(
             suppress_error_marker(World(Imported(TRUE, Division, TRUE)), A(1), 4),
             A(1), 4).e
    ELSE Imported(TRUE, Division, TRUE)

MarkerCall(op, p, marker, error, w) ==
    /\ performed' = performed + 1
    /\ experiment' = w.e
    /\ last' = [Last(op, [Command(op) EXCEPT !.ps = <<p>>, !.new = marker], w,
                     experiment, experiment)
                  EXCEPT !.error = error]
    /\ UNCHANGED <<undo_queue, redo_queue, pre_states, ghost, _selected1, _selected2, _min_position, _max_position, slicing>>

MarkerSetError ==
    /\ performed < MaxMarkerCalls
    /\ \E p \in AllStored(experiment), error \in Errors \cup {NoNumber} :
           MarkerCall("set_error_marker", p, NoValue, error,
                      set_error_marker(World(experiment), p, error))

MarkerSuppressError ==
    /\ performed < MaxMarkerCalls
    /\ \E p \in AllStored(experiment), error \in Errors :
           MarkerCall("suppress_error_marker", p, NoValue, error,
                      suppress_error_marker(World(experiment), p, error))

MarkerSetEnd ==
    /\ performed < MaxMarkerCalls
    /\ \E p \in AllStored(experiment), marker \in EndMarker \cup {NoValue} :
           MarkerCall("set_track_end_marker", p, marker, NoNumber,
                      set_track_end_marker(World(experiment), p, marker))

MarkerSetStart ==
    /\ performed < MaxMarkerCalls
    /\ \E p \in AllStored(experiment), marker \in StartMarker \cup {NoValue} :
           MarkerCall("set_track_start_marker", p, marker, NoNumber,
                      set_track_start_marker(World(experiment), p, marker))

InitMarkers == InitFrom({ImportedMarkers(FALSE), ImportedMarkers(TRUE)})

NextMarkers ==
    \/ MarkerSetError
    \/ MarkerSuppressError
    \/ MarkerSetEnd
    \/ MarkerSetStart

SpecMarkers == InitMarkers /\ [][NextMarkers]_vars

\* ------------------------------------------------------------------ mothers in a graph
\* A script builds a graph of particles edge by edge and asks for its mothers.
\* The graph is held as the links of the experiment; a node without edges has no
\* linked particles and is left out.

\* How many calls the graph script makes.
MaxGraphCalls == 3

\* Two particles in the first time point, three in the second, one in the third.
GraphParticles == {A(0), B(0), A(1), B(1), C(1), A(2)}

\* graph.add_edge(a, b)
add_edge(e, a, b) == [e EXCEPT !.links = @ \cup {Link(a, b)}]

find_mothers_any_time(e) ==
    {particle \in UNION e.links :
        Cardinality({p \in find_links_of(e, particle) : TRUE}) >= 2}

find_mothers(e) ==
    {particle \in UNION e.links :
        LET linked_particles == find_links_of(e, particle)
            future_particles ==
                {p \in linked_particles :
                    time_point_number(p) > time_point_number(particle)}
        IN  Cardinality(future_particles) >= 2}

GraphCall(op, ps, e, found) ==
    /\ performed' = performed + 1
    /\ experiment' = e
    /\ last' = [Last(op, [Command(op) EXCEPT !.ps = ps], World(e), experiment,
                     experiment)
                  EXCEPT !.found = found]
    /\ UNCHANGED <<undo_queue, redo_queue, pre_states, ghost, _selected1, _selected2, _min_position, _max_position, slicing>>

GraphAddEdge ==
    /\ performed < MaxGraphCalls
    /\ \E a \in GraphParticles, b \in GraphParticles :
           /\ a # b
           /\ Link(a, b) \notin experiment.links
           /\ GraphCall("add_edge", <<a, b>>, add_edge(experiment, a, b), {})

GraphFindMothers ==
    /\ performed < MaxGraphCalls
    /\ GraphCall("find_mothers", <<>>, experiment, find_mothers(experiment))

\* The graphs at the start: no edges, A(0) with three daughters, and A(1) linked
\* to both particles of the time point before it and to A(2).
InitGraph ==
    InitFrom({EmptyExperiment,
              add_edge(add_edge(add_edge(EmptyExperiment, A(0), A(1)), A(0), B(1)),
                       A(0), C(1)),
              add_edge(add_edge(add_edge(EmptyExperiment, A(0), A(1)), B(0), A(1)),
                       A(1), A(2))})

NextGraph ==
    \/ GraphAddEdge
    \/ GraphFindMothers

SpecGraph == InitGraph /\ [][NextGraph]_vars

\* ------------------------------------------------------------------ families
\* A script constructs families of particles and compares them.

\* How many calls the family script makes.
MaxFamilyCalls == 2

FamilyParticles == {A(0), A(1), B(1), C(1)}

\* hash(particle): particles that are equal have the same hash.
Particle__hash__(particle) == Position__hash__(particle)

\* Family.__init__: the daughters are held as a set.
Family(mother, daughter1, daughter2) ==
    [mother |-> mother, daughters |-> {daughter1, daughter2}]

RECURSIVE AddHashes(_, _)
AddHashes(hash_code, daughters) ==
    IF daughters = {} THEN hash_code
    ELSE LET daughter == CHOOSE d \in daughters : TRUE
         IN  AddHashes(hash_code + Particle__hash__(daughter), daughters \ {daughter})

Family__hash__(self) == AddHashes(Particle__hash__(self.mother), self.daughters)

Family__eq___mother_only(self, other) == other.mother = self.mother

\* isinstance(other, Family) holds of everything the script compares.
Family__eq__(self, other) ==
    /\ other.mother = self.mother
    /\ other.daughters = self.daughters

FamilyCall(op, ps, families) ==
    /\ performed' = performed + 1
    /\ experiment' = experiment
    /\ last' = [Last(op, [Command(op) EXCEPT !.ps = ps], World(experiment),
                     experiment, experiment)
                  EXCEPT !.families = families,
                         !.equal = IF Len(families) = 2
                                   THEN Family__eq__(families[1], families[2])
                                   ELSE FALSE,
                         !.hashes = [i \in 1..Len(families) |->
                                        Family__hash__(families[i])]]
    /\ UNCHANGED <<undo_queue, redo_queue, pre_states, ghost, _selected1, _selected2, _min_position, _max_position, slicing>>

\* family = Family(mother, daughter1, daughter2)
FamilyConstruct ==
    /\ performed < MaxFamilyCalls
    /\ \E mother \in FamilyParticles, daughter1 \in FamilyParticles,
          daughter2 \in FamilyParticles :
           FamilyCall("Family", <<mother, daughter1, daughter2>>,
                      <<Family(mother, daughter1, daughter2)>>)

\* family == Family(mother, daughter1, daughter2), and the hashes of the two
FamilyCompare ==
    /\ performed < MaxFamilyCalls
    /\ last.families # <<>>
    /\ \E mother \in FamilyParticles, daughter1 \in FamilyParticles,
          daughter2 \in FamilyParticles :
           FamilyCall("Family.__eq__",
                      SubSeq(last.cmd.ps, 1, 3) \o <<mother, daughter1, daughter2>>,
                      <<last.families[1], Family(mother, daughter1, daughter2)>>)

InitFamily == InitFrom({EmptyExperiment})

NextFamily ==
    \/ FamilyConstruct
    \/ FamilyCompare

SpecFamily == InitFamily /\ [][NextFamily]_vars

\* ------------------------------------------------------------------ what the properties compare

\* The stored positions with their shapes.
ShapesOf(e) == [p \in AllStored(e) |-> get_shape(e, p)]

\* Structural equality over positions, shapes, links, connections and the
\* key/value pairs of the position and link annotations.
SameState(e1, e2) ==
    /\ ShapesOf(e1) = ShapesOf(e2)
    /\ e1.links = e2.links
    /\ e1.connections = e2.connections
    /\ e1.position_data = e2.position_data
    /\ e1.link_data = e2.link_data

\* The last call was do (or redo) of a command of this kind, not reversed.
Did(kind) ==
    /\ last.op \in {"do", "redo"}
    /\ last.cmd.kind = kind
    /\ ~last.cmd.reversed

\* The last call was undo of a command of this kind, not reversed.
Undid(kind) ==
    /\ last.op = "undo"
    /\ last.cmd.kind = kind
    /\ ~last.cmd.reversed

Returned == last.raised = "none"

CheckEvents == {"check_positions_and_dividing", "check_positions", "check_dividing"}

\* The call invoked the error checker, and after its last write of the given kind.
CheckedAfter(log, ev) ==
    \E i \in 1..Len(log) :
        /\ log[i].ev \in CheckEvents
        /\ \A j \in 1..Len(log) : log[j].ev = ev => j < i

NeverChecked(log) == \A i \in 1..Len(log) : log[i].ev \notin CheckEvents

\* ------------------------------------------------------------------ C1

\* C1: when the undo of a command returns, the experiment equals the experiment
\* before the do of that command (positions, shapes, links, connections, position
\* and link annotations), so that a sequence of commands undone in reverse order
\* ends in the state it started from.
C1_RoundTrip ==
    (last.op = "undo" /\ Returned) => SameState(experiment, last.pre)

\* ------------------------------------------------------------------ C2

IsDeletePosition(c) ==
    \/ c.kind = "InsertPosition" /\ c.reversed
    \/ c.kind = "DeletePositions" /\ ~c.reversed

\* The snapshots of the command were taken from e, of positions stored in e.
SnapshotsTakenFrom(c, e) ==
    \A i \in 1..Len(c.snaps) :
        /\ exists(e, c.snaps[i].position)
        /\ c.snaps[i] = from_position(e, c.snaps[i].position)

ChainLinks(ps) == {Link(ps[i], ps[i + 1]) : i \in 1..(Len(ps) - 1)}

\* C3: _InsertLinkAction over k time points adds k - 1 positions and the k links of
\* the chain (for k = 1: the link alone), and its undo gives back the position
\* count and the link set from before the do.
C3_InsertLinkCounts ==
    /\ (Did("InsertLink") /\ Returned) =>
           /\ StoreLen(experiment) = StoreLen(last.before) + (Len(last.cmd.ps) - 2)
           /\ experiment.links = last.before.links \cup ChainLinks(last.cmd.ps)
           /\ Cardinality(experiment.links)
                  = Cardinality(last.before.links) + (Len(last.cmd.ps) - 1)
    /\ (Undid("InsertLink") /\ Returned) =>
           /\ StoreLen(experiment) = StoreLen(last.pre)
           /\ experiment.links = last.pre.links
           /\ exists(experiment, last.cmd.ps[1])
           /\ exists(experiment, last.cmd.ps[Len(last.cmd.ps)])

\* ------------------------------------------------------------------ C4

BatchLinks(c) == {Link(c.pairs[i].a, c.pairs[i].b) : i \in 1..Len(c.pairs)}

\* The batch lists each of its links once.
BatchDistinct(c) == Cardinality(BatchLinks(c)) = Len(c.pairs)

\* The annotations of the links that are not in the set.
DataOutside(e, links) ==
    [k \in {j \in DOMAIN e.link_data : j[1] \notin links} |-> e.link_data[k]]

\* C4: do of _DeleteLinksAction on a batch of present links removes the links of
\* the batch and nothing else; undo re-adds them, each with exactly the
\* annotations captured by the constructor; the links outside the batch and their
\* annotations are the same after do and after undo.
C4_DeleteLinksRestoresAnnotations ==
    /\ ( /\ Did("DeleteLinks")
         /\ BatchDistinct(last.cmd)
         /\ BatchLinks(last.cmd) \subseteq last.before.links )
       => /\ Returned
          /\ experiment.links = last.before.links \ BatchLinks(last.cmd)
          /\ DataOutside(experiment, BatchLinks(last.cmd))
                 = DataOutside(last.before, BatchLinks(last.cmd))
    /\ ( /\ Undid("DeleteLinks")
         /\ BatchDistinct(last.cmd)
         /\ BatchLinks(last.cmd) \cap last.before.links = {} )
       => /\ Returned
          /\ experiment.links = last.before.links \cup BatchLinks(last.cmd)
          /\ \A i \in 1..Len(last.cmd.pairs) :
                 find_all_data_of_link(experiment, last.cmd.pairs[i].a, last.cmd.pairs[i].b)
                     = last.cmd.pairs[i].data
          /\ DataOutside(experiment, BatchLinks(last.cmd))
                 = DataOutside(last.before, BatchLinks(last.cmd))

\* A batch of two links, one of them with two annotations, was deleted and
\* re-added while a third link kept its annotation.
C4_Witness ==
    /\ Undid("DeleteLinks")
    /\ Returned
    /\ Len(last.cmd.pairs) = 2
    /\ BatchDistinct(last.cmd)
    /\ \E i \in 1..2 : Cardinality(DOMAIN last.cmd.pairs[i].data) = 2
    /\ DOMAIN DataOutside(experiment, BatchLinks(last.cmd)) # {}
    /\ \A i \in 1..2 :
           find_all_data_of_link(experiment, last.cmd.pairs[i].a, last.cmd.pairs[i].b)
               = last.cmd.pairs[i].data

\* ------------------------------------------------------------------ C5

LinkProbability(e, p, link) == get_link_data(e, p, link, "link_probability")

\* The command was constructed in e: it holds the link probabilities of e.
MoveConstructedIn(c, e) == c.probs = MovePositionAction(e, c.ps[1], c.ps[2]).probs

C6_FailedCommandChangesNothing ==
    (last.op \in {"do", "undo", "redo"} /\ ~Returned) => SameState(experiment, last.before)

\* ------------------------------------------------------------------ C7

\* The last call was PositionCollection.move_position or the constructor of
\* _MovePositionAction (alone when it raised, followed by do when it did not).
MoveCall ==
    \/ last.op \in {"move_position", "construct"}
    \/ last.op = "do" /\ last.cmd.kind = "MovePosition"

\* C7: a move between positions of different time points raises ValueError, in the
\* store and in the constructor of the command, and changes nothing.
C7_MoveAcrossTimePointsFails ==
    ( /\ MoveCall
      /\ time_point_number(last.cmd.ps[1]) # time_point_number(last.cmd.ps[2]) )
    => (last.raised = "ValueError" /\ experiment = last.before)

\* The store was asked to move a stored position, with links and annotations, to
\* another time point, and raised.
C7_Witness ==
    /\ last.op = "move_position"
    /\ last.raised = "ValueError"
    /\ exists(last.before, last.cmd.ps[1])
    /\ find_links_of(last.before, last.cmd.ps[1]) # {}
    /\ time_point_number(last.cmd.ps[1]) # NoTime
    /\ time_point_number(last.cmd.ps[2]) # NoTime
    /\ time_point_number(last.cmd.ps[1]) # time_point_number(last.cmd.ps[2])

\* ------------------------------------------------------------------ C8

StructuralKinds ==
    {"InsertLink", "DeleteLinks", "InsertPosition", "DeletePositions", "MovePosition",
     "OverwritePosition"}

\* C8: every do and undo of a structural command that changes the positions or
\* the links calls the error checker after its last structural mutation.
C8_StructuralCommandsCheckErrors ==
    ( /\ last.op \in {"do", "undo", "redo"}
      /\ last.cmd.kind \in StructuralKinds
      /\ Returned
      /\ \E i \in 1..Len(last.log) : last.log[i].ev = "mutation" )
    => CheckedAfter(last.log, "mutation")

\* ------------------------------------------------------------------ C9

AnnotationKinds ==
    {"MarkLineageEnd", "MarkPositionAsSomething", "SetLineageColor", "SetAllAsType"}

QueueIds(q) == {q[i].id : i \in 1..Len(q)}

\* C10: undo reverts the most recently applied command that is not undone, redo
\* re-applies the most recently undone command, a command is undone only when it
\* is applied, a new command empties the redo stack, and a command that was
\* undone before a new command is never redone.
C10_UndoRedoIsLIFO ==
    /\ last.op = "undo" =>
           /\ last.ghost.applied # <<>>
           /\ last.cmd.id = Top(last.ghost.applied)
    /\ last.op = "redo" =>
           /\ last.ghost.undone # <<>>
           /\ last.cmd.id = Top(last.ghost.undone)
           /\ last.cmd.id \notin last.ghost.dead
    /\ (last.op = "do" /\ Returned) => redo_queue = <<>>
    /\ QueueIds(redo_queue) \cap ghost.dead = {}

\* A command was undone, a new command performed and undone, and the new command
\* redone: the redo re-applied the new command, not the one undone before it.
C10_Witness ==
    /\ last.op = "redo"
    /\ last.ghost.dead # {}
    /\ last.cmd.id \notin last.ghost.dead
    /\ last.cmd.id = Top(last.ghost.undone)
    /\ redo_queue = <<>>

\* ------------------------------------------------------------------ C11

\* The position handed to the last call of the store.
StoreArg == last.cmd.ps[1]

\* Every position stored in e, except p, is stored in e2 with the shape it had.
OthersKept(e, e2, p) ==
    \A q \in AllStored(e) \ {p} :
        q \in AllStored(e2) /\ get_shape(e2, q) = get_shape(e, q)

\* C11: after add(P) of a position with a time index, of_time_point(P's time point)
\* contains P and exists(P) is true; after detach_position(P) on a store that
\* contains P, exists(P) is false, of_time_point(P's time point) does not contain
\* P, and every other stored position is still stored with its shape.
C11_AddThenDetach ==
    /\ (last.op = "add" /\ time_point_number(StoreArg) # NoTime)
       => /\ Returned
          /\ StoreArg \in of_time_point(experiment, time_point_number(StoreArg))
          /\ exists(experiment, StoreArg)
    /\ (last.op = "detach_position" /\ exists(last.before, StoreArg))
       => /\ Returned
          /\ ~exists(experiment, StoreArg)
          /\ StoreArg \notin of_time_point(experiment, time_point_number(StoreArg))
          /\ OthersKept(last.before, experiment, StoreArg)

\* ------------------------------------------------------------------ C12

\* C12: add(P) without a shape argument leaves the shape of a stored P as it was,
\* and add(P, S2) with a shape argument makes S2 the shape of P.
C12_AddNeverDowngradesShape ==
    (last.op = "add" /\ Returned)
    => /\ (last.cmd.new = NoShape /\ exists(last.before, StoreArg))
          => get_shape(experiment, StoreArg) = get_shape(last.before, StoreArg)
       /\ last.cmd.new # NoShape
          => get_shape(experiment, StoreArg) = last.cmd.new

\* A position stored with a known shape was added again without a shape.
C12_Witness ==
    /\ last.op = "add"
    /\ Returned
    /\ last.cmd.new = NoShape
    /\ StoreArg \in AllStored(last.before)
    /\ get_shape(last.before, StoreArg) = "ellipse"
    /\ get_shape(experiment, StoreArg) = "ellipse"

\* ------------------------------------------------------------------ C13

\* The time indices that hold at least one position.
TimesWithPositions(e) == {time_point_number(p) : p \in AllStored(e)}

first_time_point_number(e) == e.min_time_point_number

last_time_point_number(e) == e.max_time_point_number

has_positions(e) == Cardinality(DOMAIN e.all_positions) > 0

\* C13: first_time_point_number() and last_time_point_number() are the smallest
\* and the largest time index that holds a position, both are None exactly when
\* nothing is stored, and no empty time bucket is kept: has_positions() is true
\* exactly when len(store) > 0.
C13_MinMaxFollowTheBuckets ==
    /\ (TimesWithPositions(experiment) = {})
       <=> (first_time_point_number(experiment) = NoTime)
    /\ (TimesWithPositions(experiment) = {})
       <=> (last_time_point_number(experiment) = NoTime)
    /\ TimesWithPositions(experiment) # {}
       => /\ first_time_point_number(experiment) \in TimesWithPositions(experiment)
          /\ last_time_point_number(experiment) \in TimesWithPositions(experiment)
          /\ \A t \in TimesWithPositions(experiment) :
                /\ first_time_point_number(experiment) <= t
                /\ t <= last_time_point_number(experiment)
    /\ \A t \in DOMAIN experiment.all_positions : experiment.all_positions[t] # EmptyBucket
    /\ has_positions(experiment) <=> (StoreLen(experiment) > 0)

\* The last position of the first time index was detached, positions of later
\* time indices remain, and the first time index moved up.
C13_Witness ==
    /\ last.op \in {"detach_position", "detach_all_for_time_point"}
    /\ Returned
    /\ StoreLen(experiment) > 0
    /\ first_time_point_number(last.before) < first_time_point_number(experiment)

\* ------------------------------------------------------------------ C14

\* C14: no time index holds two entries whose positions compare equal
\* (Position.__eq__), and adding a position that compares equal to a stored
\* position of its time index does not increase len(store).
C14_NoTwoEqualEntries ==
    /\ \A t \in DOMAIN experiment.all_positions :
          \A p \in of_time_point(experiment, t), q \in of_time_point(experiment, t) :
              Position__eq__(p, q) => p = q
    /\ ( /\ last.op = "add"
         /\ \E q \in of_time_point(last.before, time_point_number(StoreArg)) :
                Position__eq__(StoreArg, q) )
       => StoreLen(experiment) <= StoreLen(last.before)

\* ------------------------------------------------------------------ C15

\* The positions that the dict of the last call compared its argument with: the
\* stored ones, and the other argument of a move.
ComparedWith == AllStored(last.before) \cup SeqToSet(last.cmd.ps)

\* C15: two positions compare equal exactly when their x, their y and their z
\* coordinates agree and their time indices are equal, and positions that compare
\* equal have the same hash.
C15_EqualityAndHash ==
    last.op \in {"add", "detach_position", "move_position"}
    => \A q \in ComparedWith :
          /\ Position__eq__(StoreArg, q)
             <=> /\ StoreArg.x = q.x
                 /\ StoreArg.y = q.y
                 /\ StoreArg.z = q.z
                 /\ time_point_number(StoreArg) = time_point_number(q)
          /\ Position__eq__(StoreArg, q) => Position__hash__(StoreArg) = Position__hash__(q)

\* ------------------------------------------------------------------ C16

\* C16: add(P) of a position without a time index raises ValueError and leaves the
\* positions, the shapes and the min and max time as they were; every stored
\* position has a time index, the index of the time bucket that holds it.
C16_AddWithoutTimeFails ==
    /\ (last.op = "add" /\ time_point_number(StoreArg) = NoTime)
       => /\ last.raised = "ValueError"
          /\ experiment.all_positions = last.before.all_positions
          /\ first_time_point_number(experiment) = first_time_point_number(last.before)
          /\ last_time_point_number(experiment) = last_time_point_number(last.before)
    /\ \A t \in DOMAIN experiment.all_positions :
          /\ t # NoTime
          /\ \A p \in of_time_point(experiment, t) : time_point_number(p) = t

\* A position without a time index was handed to add of a store that holds
\* positions, and add raised.
C16_Witness ==
    /\ last.op = "add"
    /\ time_point_number(StoreArg) = NoTime
    /\ last.raised = "ValueError"
    /\ StoreLen(last.before) > 0

\* ------------------------------------------------------------------ C17

\* C17: detach_position(P) of a position that is not in the store raises no error
\* and leaves the positions, the shapes and the min and max time as they were,
\* whether or not other positions are stored at the time index of P.
C17_DetachAbsentIsNoOp ==
    (last.op = "detach_position" /\ ~exists(last.before, StoreArg))
    => /\ Returned
       /\ experiment.all_positions = last.before.all_positions
       /\ first_time_point_number(experiment) = first_time_point_number(last.before)
       /\ last_time_point_number(experiment) = last_time_point_number(last.before)

\* ------------------------------------------------------------------ C18

\* The last call was get_division_count_in_lineage.
CountCall == last.op = "get_division_count_in_lineage"

\* The tracks of the lineage that the last call was asked about.
Lineage == Descending(experiment, {StoreArg}, {})

\* The lineage is one track, without next tracks.
WithoutDivisions == Lineage = {StoreArg} /\ get_next_tracks(experiment, StoreArg) = {}

EndMarkerOf(track) == get_track_end_marker(experiment, find_last_position(experiment, track))

\* C18: for a lineage without divisions, the count is 0 when the track reaches
\* last_time_point_number, 0 when the track ends before it with a DEAD marker on
\* its last position, and None when the track ends before it with no end marker
\* and no next tracks.
C18_CountWithoutDivisions ==
    (CountCall /\ WithoutDivisions)
    => /\ max_time_point_number(experiment, StoreArg) >= last.until
          => last.result = 0
       /\ ( /\ max_time_point_number(experiment, StoreArg) < last.until
            /\ EndMarkerOf(StoreArg) = "DEAD" )
          => last.result = 0
       /\ ( /\ max_time_point_number(experiment, StoreArg) < last.until
            /\ EndMarkerOf(StoreArg) = NoValue )
          => last.result = NoNumber

\* A track of two positions without next tracks, marked DEAD at its end, was
\* counted in a window that ends later than the track: 0.
C18_Witness ==
    /\ CountCall
    /\ WithoutDivisions
    /\ min_time_point_number(experiment, StoreArg) < max_time_point_number(experiment, StoreArg)
    /\ max_time_point_number(experiment, StoreArg) < last.until
    /\ EndMarkerOf(StoreArg) = "DEAD"
    /\ last.result = 0

\* ------------------------------------------------------------------ C19

\* The track lies in the window, ended before the window did, has no next tracks
\* and no DEAD marker on its last position.
Unresolved(track) ==
    /\ min_time_point_number(experiment, track) <= last.until
    /\ get_next_tracks(experiment, track) = {}
    /\ max_time_point_number(experiment, track) < last.until
    /\ EndMarkerOf(track) # "DEAD"

\* C19: the count is None exactly when the lineage holds a track that starts at
\* or before last_time_point_number, has no next tracks, ends before
\* last_time_point_number and has no DEAD marker on its last position, whatever
\* the divisions and the resolved branches of the rest of the lineage.
C19_NoneIffUnresolvedTrack ==
    CountCall => ((last.result = NoNumber) <=> (\E track \in Lineage : Unresolved(track)))

\* A lineage with a division, one branch that ended with a DEAD marker and one
\* that ended with an OUT_OF_VIEW marker was counted: None.
C19_Witness ==
    /\ CountCall
    /\ last.result = NoNumber
    /\ \E track \in Lineage : Cardinality(get_next_tracks(experiment, track)) > 1
    /\ \E track \in Lineage :
          /\ get_next_tracks(experiment, track) = {}
          /\ max_time_point_number(experiment, track) < last.until
          /\ EndMarkerOf(track) = "DEAD"
    /\ \E track \in Lineage : Unresolved(track) /\ EndMarkerOf(track) = "OUT_OF_VIEW"

\* ------------------------------------------------------------------ C20

\* The tracks of the lineage that start at or before last_time_point_number, end
\* before it and have more than one next track.
DivisionsInWindow ==
    {track \in Lineage :
        /\ min_time_point_number(experiment, track) <= last.until
        /\ max_time_point_number(experiment, track) < last.until
        /\ Cardinality(get_next_tracks(experiment, track)) > 1}

\* C20: a count that is not None is the number of tracks of the lineage that start
\* at or before last_time_point_number, end before it and have more than one next
\* track: tracks that start after last_time_point_number and tracks that end
\* exactly at it are not counted.
C20_CountsDivisionsInWindow ==
    (CountCall /\ last.result # NoNumber) => last.result = Cardinality(DivisionsInWindow)

\* A lineage was counted as one division although it also holds a track with two
\* next tracks that ends exactly at last_time_point_number, and tracks that start
\* after it.
C20_Witness ==
    /\ CountCall
    /\ last.result = 1
    /\ \E track \in Lineage :
          /\ max_time_point_number(experiment, track) = last.until
          /\ Cardinality(get_next_tracks(experiment, track)) > 1
    /\ \E track \in Lineage : min_time_point_number(experiment, track) > last.until

\* ------------------------------------------------------------------ C21

\* The tracks that can be reached from the given tracks over at most n next-track
\* edges.
RECURSIVE ReachableIn(_, _)
ReachableIn(tracks, n) ==
    IF n = 0 THEN tracks
    ELSE ReachableIn(tracks \cup UNION {get_next_tracks(experiment, track) : track \in tracks},
                     n - 1)

ReachableTracks == ReachableIn({StoreArg}, Cardinality(LineagePositions))

\* What the walk from the start track of the last call yields.
Yielded == find_all_descending_tracks(experiment, StoreArg)

\* The tracks of the lineage from which the track is a next track.
PreviousIn(track) == {other \in ReachableTracks : track \in get_next_tracks(experiment, other)}

\* C21: find_all_descending_tracks(include_self=True) ends after yielding every
\* track that can be reached from the start track exactly once, also where two
\* tracks merge into one, so that the division count holds a division below a
\* merge once.
C21_EveryTrackOnce ==
    CountCall
    => /\ SeqToSet(Yielded) = ReachableTracks
       /\ Len(Yielded) = Cardinality(ReachableTracks)
       /\ last.result # NoNumber
          => last.result <= Cardinality({track \in ReachableTracks :
                                 Cardinality(get_next_tracks(experiment, track)) > 1})

\* A lineage was counted in which a track that two tracks merge into divides
\* before the end of the window.
C21_Witness ==
    /\ CountCall
    /\ last.result # NoNumber
    /\ \E track \in ReachableTracks :
          /\ Cardinality(PreviousIn(track)) > 1
          /\ Cardinality(get_next_tracks(experiment, track)) > 1
          /\ max_time_point_number(experiment, track) < last.until

\* ------------------------------------------------------------------ C22

\* The last call added the links of an _InsertLinkAction: its do or redo, or the
\* undo of its reverse.
AddedLinks ==
    /\ last.cmd.kind = "InsertLink"
    /\ Returned
    /\ \/ last.op \in {"do", "redo"} /\ ~last.cmd.reversed
       \/ last.op = "undo" /\ last.cmd.reversed

\* The last call removed the one link of an _InsertLinkAction of two positions.
RemovedLink ==
    /\ last.cmd.kind = "InsertLink"
    /\ Len(last.cmd.ps) = 2
    /\ Returned
    /\ \/ last.op = "undo" /\ ~last.cmd.reversed
       \/ last.op \in {"do", "redo"} /\ last.cmd.reversed

\* C22: after add_link(A, B) both contains_link(A, B) and contains_link(B, A) are
\* true, and after remove_link, with the positions in either order, both are false:
\* _InsertLinkAction adds each link as (later, earlier) and removes it as
\* (first, second).
C22_LinksAreSymmetric ==
    /\ AddedLinks
       => \A i \in 1..(Len(last.cmd.ps) - 1) :
             /\ contains_link(experiment, last.cmd.ps[i], last.cmd.ps[i + 1])
             /\ contains_link(experiment, last.cmd.ps[i + 1], last.cmd.ps[i])
    /\ RemovedLink
       => /\ ~contains_link(experiment, last.cmd.ps[1], last.cmd.ps[2])
          /\ ~contains_link(experiment, last.cmd.ps[2], last.cmd.ps[1])

\* The link that do added as (later position, earlier position) was removed by
\* undo as (earlier position, later position).
C22_Witness ==
    /\ last.op = "undo"
    /\ RemovedLink
    /\ last.direct
    /\ time_point_number(last.cmd.ps[1]) < time_point_number(last.cmd.ps[2])
    /\ contains_link(last.before, last.cmd.ps[2], last.cmd.ps[1])
    /\ ~contains_link(last.pre, last.cmd.ps[1], last.cmd.ps[2])


\* ------------------------------------------------------------------ C23
\* The position and the error code that the last marker call was given.
MarkerArg == last.cmd.ps[1]

SuppressedBefore == get_position_number(last.before, MarkerArg, "suppressed_error")

\* C23: suppression is specific to one error code. When error e is suppressed
\* on X, setting error e on X makes get_error_marker(X) return None and keeps X
\* out of find_errored_positions, setting another error e2 makes
\* get_error_marker(X) return e2 and puts X in find_errored_positions, and
\* after suppress_error_marker(X, e) is_error_suppressed(X, e2) is true for
\* e2 = e only.
C23_SuppressionIsPerErrorCode ==
    /\ (last.op = "set_error_marker" /\ last.error # NoNumber
            /\ SuppressedBefore # NoNumber)
       => IF last.error = SuppressedBefore
          THEN /\ get_error_marker(experiment, MarkerArg) = NoNumber
               /\ MarkerArg \notin find_errored_positions(experiment)
          ELSE /\ get_error_marker(experiment, MarkerArg) = last.error
               /\ MarkerArg \in find_errored_positions(experiment)
    /\ last.op = "suppress_error_marker"
       => \A e2 \in Errors :
              is_error_suppressed(experiment, MarkerArg, e2) <=> e2 = last.error

\* Error 4 was suppressed on a position by a call, and error 5 has been set on
\* it and is reported.
C23_Witness ==
    /\ last.op = "set_error_marker"
    /\ MarkerArg # A(1)
    /\ SuppressedBefore = 4
    /\ last.error = 5
    /\ get_error_marker(experiment, MarkerArg) = 5
    /\ MarkerArg \in find_errored_positions(experiment)

\* ------------------------------------------------------------------ C24
\* The lower-cased names of the markers, written out.
LowerCasedName(marker) ==
    CASE marker = "DEAD" -> "dead"
      [] marker = "OUT_OF_VIEW" -> "out_of_view"
      [] marker = "GOES_INTO_VIEW" -> "goes_into_view"
      [] marker = "UNSURE" -> "unsure"
      [] OTHER -> NoValue

\* C24: set_track_end_marker(P, M) followed by get_track_end_marker(P) returns
\* M, the value stored under "ending" is the lower-cased name of M, and M = None
\* makes get_track_end_marker(P) return None; the same holds for start markers
\* under "starting"; setting a start marker changes the end marker of no
\* position, and setting an end marker changes the start marker of no position.
C24_MarkersRoundTrip ==
    /\ last.op = "set_track_end_marker"
       => /\ get_track_end_marker(experiment, MarkerArg) = last.cmd.new
          /\ get_position_data(experiment, MarkerArg, "ending")
                 = LowerCasedName(last.cmd.new)
          /\ \A p \in AllStored(experiment) :
                 get_track_start_marker(experiment, p)
                     = get_track_start_marker(last.before, p)
    /\ last.op = "set_track_start_marker"
       => /\ get_track_start_marker(experiment, MarkerArg) = last.cmd.new
          /\ get_position_data(experiment, MarkerArg, "starting")
                 = LowerCasedName(last.cmd.new)
          /\ \A p \in AllStored(experiment) :
                 get_track_end_marker(experiment, p)
                     = get_track_end_marker(last.before, p)

\* A position that a call marked DEAD at its end has been marked UNSURE at its
\* start, and carries both markers.
C24_Witness ==
    /\ last.op = "set_track_start_marker"
    /\ last.cmd.new = "UNSURE"
    /\ get_position_data(Imported(TRUE, Division, TRUE), MarkerArg, "ending") = NoValue
    /\ get_track_end_marker(last.before, MarkerArg) = "DEAD"
    /\ get_track_end_marker(experiment, MarkerArg) = "DEAD"
    /\ get_track_start_marker(experiment, MarkerArg) = "UNSURE"

LaterLinked(p) ==
    {q \in GraphParticles : {p, q} \in experiment.links /\ q.t >= p.t + 1}

\* C25: find_mothers returns exactly the particles of the graph that have at
\* least two linked particles with a strictly greater time index; one with more
\* than two is returned too, and links to particles of an earlier or the same
\* time index do not count.
C25_MothersHaveTwoLaterLinks ==
    last.op = "find_mothers"
    => \A p \in GraphParticles :
           p \in last.found
           <=> \E q1 \in LaterLinked(p), q2 \in LaterLinked(p) : q1 # q2

\* A(0) has three links into the next time point and is returned; A(1) has three
\* links, of which one into a later time point, and is not returned.
C25_Witness ==
    /\ last.op = "find_mothers"
    /\ Cardinality(LaterLinked(A(0))) = 3
    /\ A(0) \in last.found
    /\ {{A(1), A(0)}, {A(1), B(0)}, {A(1), A(2)}} \subseteq experiment.links
    /\ A(1) \notin last.found

\* ------------------------------------------------------------------ C26
\* The arguments of the two constructions that were compared: Family(m, d1, d2)
\* and Family(m2, d3, d4).
Compared ==
    [m |-> last.cmd.ps[1], d1 |-> last.cmd.ps[2], d2 |-> last.cmd.ps[3],
     m2 |-> last.cmd.ps[4], d3 |-> last.cmd.ps[5], d4 |-> last.cmd.ps[6]]

\* C26: Family(m, d1, d2) equals Family(m, d2, d1) and has the same hash;
\* Family(m, d1, d2) differs from Family(m, d1, d3) when d3 is neither d1 nor
\* d2, and from Family(m2, d1, d2) when m2 is not m.
C26_DaughterOrderIsIrrelevant ==
    last.op = "Family.__eq__"
    => LET c == Compared
       IN  /\ (c.m2 = c.m /\ c.d3 = c.d2 /\ c.d4 = c.d1)
              => last.equal /\ last.hashes[1] = last.hashes[2]
           /\ (c.m2 = c.m /\ c.d3 = c.d1 /\ c.d4 \notin {c.d1, c.d2})
              => ~last.equal
           /\ (c.m2 # c.m /\ c.d3 = c.d1 /\ c.d4 = c.d2)
              => ~last.equal

\* A family of two different daughters was compared with the family of the same
\* mother and the daughters swapped: they are equal and have one hash.
C26_Witness ==
    /\ last.op = "Family.__eq__"
    /\ Compared.m2 = Compared.m
    /\ Compared.d1 # Compared.d2
    /\ Compared.d3 = Compared.d2
    /\ Compared.d4 = Compared.d1
    /\ last.equal
    /\ last.hashes[1] = last.hashes[2]

\* ------------------------------------------------------------------ C27
\* C27: every Family that is constructed has exactly two daughters.
C27_FamiliesHaveTwoDaughters ==
    \A i \in 1..Len(last.families) :
        Cardinality(last.families[i].daughters) = 2

\* ------------------------------------------------------------------ C28
\* C28: when the undo of an _InsertLinkAction returns, every position, link and
\* position annotation that existed before its do still exists, also when an
\* interpolated position equals a position that was stored before the do.
C28_UndoKeepsWhatExisted ==
    (Undid("InsertLink") /\ Returned)
    => /\ \A p \in AllStored(last.pre) : exists(experiment, p)
       /\ last.pre.links \subseteq experiment.links
       /\ \A k \in DOMAIN last.pre.position_data :
              /\ k \in DOMAIN experiment.position_data
              /\ experiment.position_data[k] = last.pre.position_data[k]

\* ------------------------------------------------------------------ C29
\* _try_delete deleted the link of the two selected positions.
DeletedLink ==
    /\ last.op = "do"
    /\ last.cmd.kind = "InsertLink"
    /\ last.cmd.reversed

\* C29: when _try_delete deletes the link of the two selected positions, the
\* delete is carried out, afterwards contains_link is false for the pair, and no
\* position and no other link has been removed, whether the link joins adjacent
\* time indices or spans more than one.
C29_DeleteRemovesExactlyTheLink ==
    DeletedLink
    => LET position1 == last.cmd.ps[1]
           position2 == last.cmd.ps[Len(last.cmd.ps)]
       IN  /\ Returned
           /\ ~contains_link(experiment, position1, position2)
           /\ AllStored(experiment) = AllStored(last.before)
           /\ experiment.links = last.before.links \ {Link(position1, position2)}

\* ------------------------------------------------------------------ C31
\* The positions that are stored or carry an annotation.
Annotated(e) == AllStored(e) \cup {k[1] : k \in DOMAIN e.position_data}

\* C31: find_errored_positions yields exactly the positions X for which
\* get_error_marker(X) is not None.
C31_BatchAndSingleQueryAgree ==
    \A X \in Annotated(experiment) :
        X \in find_errored_positions(experiment)
        <=> get_error_marker(experiment, X) # NoNumber

\* After a call, one position carries an error that is suppressed, and another
\* carries an error that is reported.
C31_Witness ==
    /\ last.op = "set_error_marker"
    /\ last.error # NoNumber
    /\ \E X \in AllStored(experiment) :
           /\ get_position_number(experiment, X, "error") # NoNumber
           /\ get_error_marker(experiment, X) = NoNumber
           /\ X \notin find_errored_positions(experiment)
    /\ MarkerArg \in find_errored_positions(experiment)
    /\ get_error_marker(experiment, MarkerArg) = last.error

\* ------------------------------------------------------------------ C32
IrreversibleHandlers ==
    {"_delete_tracks_with_errors", "_delete_tracks_not_in_first_time_point"}

\* The log starts with the clearing of the history.
ClearedFirst(log) == log # <<>> /\ log[1].ev = "clear"

\* C32: a confirmed deletion that cannot be undone clears the undo/redo history
\* before it changes the experiment, and no command recorded before it is
\* undone or redone after it; a declined one changes neither the history nor
\* the experiment.
C32_HistoryClearedBeforeDeletion ==
    [][ /\ last'.op \in IrreversibleHandlers
           => IF last'.cmd.new = "yes"
              THEN /\ undo_queue' = <<>>
                   /\ redo_queue' = <<>>
                   /\ ClearedFirst(last'.log)
              ELSE UNCHANGED <<experiment, undo_queue, redo_queue>>
        /\ last'.op \in {"undo", "redo"} => last'.cmd.id \notin ghost.dead
      ]_vars


\* A command had been performed, and the confirmed deletion of the tracks with
\* errors has removed positions and emptied the history.
C32_Witness ==
    /\ last.op = "_delete_tracks_with_errors"
    /\ last.cmd.new = "yes"
    /\ last.ghost.applied # <<>>
    /\ AllStored(experiment) # AllStored(last.before)
    /\ undo_queue = <<>>
    /\ redo_queue = <<>>
\* ------------------------------------------------------------------ C33
\* Exactly one position is selected, it has no link into the future, and the
\* marker differs from the one it has.
EndMarkerCanBeSet(marker) ==
    /\ _selected1 # NoPos
    /\ _selected2 = NoPos
    /\ find_futures(experiment, _selected1) = {}
    /\ get_track_end_marker(experiment, _selected1) # marker

\* C33: _try_set_end_marker performs a MarkLineageEnd command only when exactly
\* one position is selected, that position has no link into the future and the
\* requested marker differs from its current marker; otherwise it performs no
\* command and leaves the experiment and the undo history as they are. The
\* command records the current marker as old_marker, and undo restores it.
C33_EndMarkerOnlyOnSelectedLineageEnd ==
    [][ /\ (last'.op = "do" /\ last'.cmd.kind = "MarkLineageEnd")
           => /\ EndMarkerCanBeSet(last'.cmd.new)
              /\ last'.cmd.ps = <<_selected1>>
              /\ last'.cmd.old = get_track_end_marker(experiment, _selected1)
        /\ last'.op = "_try_set_end_marker"
           => /\ ~EndMarkerCanBeSet(last'.cmd.new)
              /\ UNCHANGED <<experiment, undo_queue, redo_queue, pre_states>>
        /\ (last'.op = "undo" /\ last'.cmd.kind = "MarkLineageEnd")
           => get_track_end_marker(experiment', last'.cmd.ps[1]) = last'.cmd.old
      ]_vars


\* A lineage end marked as dead was marked as out of view, and the undo of the
\* second marking has brought the first marker back.
C33_Witness ==
    /\ last.op = "undo"
    /\ last.cmd.kind = "MarkLineageEnd"
    /\ last.cmd.old = "DEAD"
    /\ last.cmd.new = "OUT_OF_VIEW"
    /\ _selected1 = last.cmd.ps[1]
    /\ get_track_end_marker(last.before, _selected1) = "OUT_OF_VIEW"
    /\ get_track_end_marker(experiment, _selected1) = "DEAD"

\* ------------------------------------------------------------------ C34
\* C34: _selected1 and _selected2 are never the same position; a double-click on
\* a place without a position clears both selections, and a double-click on a
\* selected position deselects only that one.
C34_SelectionsAreDistinct ==
    [][ /\ (_selected1' = NoPos \/ _selected1' # _selected2')
        /\ (last'.op = "_on_mouse_click" /\ last'.cmd.kind = "dblclick")
           => IF last'.cmd.ps[1] = NoPos
              THEN _selected1' = NoPos /\ _selected2' = NoPos
              ELSE IF last'.cmd.ps[1] = _selected1
              THEN _selected1' = NoPos /\ _selected2' = _selected2
              ELSE IF last'.cmd.ps[1] = _selected2
              THEN _selected1' = _selected1 /\ _selected2' = NoPos
              ELSE TRUE
      ]_vars

\* ------------------------------------------------------------------ C35
\* The position N is new to the experiment e: not stored, and without links.
NewTo(e, N) == ~exists(e, N) /\ find_links_of(e, N) = {}

\* C35: when _try_insert overwrites a stored position Q, adjacent in time to the
\* selected position S, with a new position N, then after do Q is not stored, N
\* is stored at Q's time index and is linked to S and to the former neighbours
\* of Q in other time indices than that of S, and to nothing else; after undo, Q
\* is stored with all its former links and N is not stored.
C35_OverwriteRelinks ==
    last.cmd.kind = "OverwritePosition" =>
        LET N == last.cmd.snaps[1].position
            Q == last.cmd.snaps[2].position
            S == last.cmd.snaps[1].links[1]
            former == SeqToSet(last.cmd.snaps[2].links)
        IN  /\ (last.op \in {"do", "redo"} /\ NewTo(last.before, N))
               => /\ ~exists(experiment, Q)
                  /\ exists(experiment, N)
                  /\ N.t = Q.t
                  /\ find_links_of(experiment, N) = {S} \cup {q \in former : q.t # S.t}
                  /\ find_links_of(experiment, Q) = {}
            /\ (last.op = "undo" /\ NewTo(last.pre, N))
               => /\ exists(experiment, Q)
                  /\ find_links_of(experiment, Q) = former
                  /\ ~exists(experiment, N)

\* A position with a link into the time index of the selected position and a
\* link into another one was overwritten, and the overwriting was undone.
C35_Witness ==
    /\ last.op = "undo"
    /\ last.cmd.kind = "OverwritePosition"
    /\ NewTo(last.pre, last.cmd.snaps[1].position)
    /\ \E q \in SeqToSet(last.cmd.snaps[2].links) :
           /\ q.t = last.cmd.snaps[1].links[1].t
           /\ q # last.cmd.snaps[1].links[1]
    /\ \E q \in SeqToSet(last.cmd.snaps[2].links) : q.t # last.cmd.snaps[1].links[1].t
    /\ \A q \in SeqToSet(last.cmd.snaps[2].links) : q \in find_links_of(experiment, last.cmd.snaps[2].position)
    /\ ~exists(experiment, last.cmd.snaps[1].position)
\* ------------------------------------------------------------------ C36
\* C36: move_position(old, new) with equal time indices, old stored and new not
\* stored, leaves the number of positions and the min/max time unchanged, removes
\* old and stores new with the shape that old had; when old is not stored it
\* changes nothing and raises no error.
C36_MoveKeepsCountAndShape ==
    ( /\ last.op = "move_position"
      /\ time_point_number(last.cmd.ps[1]) = time_point_number(last.cmd.ps[2])
      /\ time_point_number(last.cmd.ps[1]) # NoTime )
    => LET old == last.cmd.ps[1]
           new == last.cmd.ps[2]
       IN  /\ (exists(last.before, old) /\ ~exists(last.before, new))
              => /\ last.raised = "none"
                 /\ StoreLen(experiment) = StoreLen(last.before)
                 /\ experiment.min_time_point_number = last.before.min_time_point_number
                 /\ experiment.max_time_point_number = last.before.max_time_point_number
                 /\ ~exists(experiment, old)
                 /\ exists(experiment, new)
                 /\ get_shape(experiment, new) = get_shape(last.before, old)
           /\ ~exists(last.before, old)
              => (last.raised = "none" /\ experiment = last.before)

\* The only position of a time point, with a known shape, was moved within its
\* time point.
C36_Witness ==
    /\ last.op = "move_position"
    /\ last.raised = "none"
    /\ exists(last.before, last.cmd.ps[1])
    /\ ~exists(last.before, last.cmd.ps[2])
    /\ of_time_point(last.before, last.cmd.ps[1].t) = {last.cmd.ps[1]}
    /\ get_shape(last.before, last.cmd.ps[1]) = "ellipse"
    /\ get_shape(experiment, last.cmd.ps[2]) = "ellipse"
    /\ of_time_point(experiment, last.cmd.ps[1].t) = {last.cmd.ps[2]}
\* ------------------------------------------------------------------ C37
\* The rectangle has its two corners.
RectangleDefined == _min_position # NoPos /\ _max_position # NoPos

\* The position lies within the corners of the rectangle, in x, y and z.
WithinCorners(p) ==
    /\ _min_position.x <= p.x /\ p.x <= _max_position.x
    /\ _min_position.y <= p.y /\ p.y <= _max_position.y
    /\ _min_position.z <= p.z /\ p.z <= _max_position.z

\* The stored positions of the time indices of the rectangle that lie inside it
\* (inside = TRUE) or outside it (inside = FALSE).
Chosen(e, inside) ==
    {p \in AllStored(e) : /\ _min_position.t <= p.t /\ p.t <= _max_position.t
                          /\ WithinCorners(p) = inside}

\* C37: _set_type(type, inside) performs one undoable command that sets the type
\* of exactly the stored positions inside the rectangle (inside=True) or outside
\* it (inside=False), among the positions at the time indices of the rectangle;
\* the type of every other position is unchanged, the inside and the outside
\* selection are disjoint, and no command is performed when the rectangle is not
\* fully defined or the selection is empty.
C37_TypeOfExactlyTheChosenPositions ==
    /\ (last.op = "do" /\ last.cmd.kind = "SetAllAsType")
       => /\ RectangleDefined
          /\ Chosen(last.before, last.inside) # {}
          /\ DOMAIN last.cmd.types = Chosen(last.before, last.inside)
          /\ undo_queue # <<>> /\ Top(undo_queue) = last.cmd
          /\ \A p \in Chosen(last.before, last.inside) :
                 get_position_type(experiment, p) = last.cmd.new
          /\ \A p \in Annotated(last.before) \ Chosen(last.before, last.inside) :
                 get_position_type(experiment, p) = get_position_type(last.before, p)
    /\ last.op = "_set_type"
       => /\ ~RectangleDefined \/ Chosen(experiment, last.inside) = {}
          /\ experiment = last.before
    /\ RectangleDefined
       => _get_selected_positions(experiment, _min_position, _max_position, TRUE)
              \cap _get_selected_positions(experiment, _min_position, _max_position, FALSE)
          = {}

\* Of the positions of two time indices, those outside the rectangle were given
\* a type; a position inside the rectangle and a position of another time index
\* have kept theirs.
C37_Witness ==
    /\ last.op = "do"
    /\ last.cmd.kind = "SetAllAsType"
    /\ ~last.inside
    /\ last.cmd.new = "STEM"
    /\ _min_position.t < _max_position.t
    /\ Chosen(last.before, TRUE) # {}
    /\ \E p \in AllStored(experiment) : p.t > _max_position.t
    /\ \A p \in AllStored(experiment) :
           get_position_type(experiment, p)
               = IF p \in Chosen(last.before, FALSE) THEN "STEM" ELSE NoValue
\* ------------------------------------------------------------------ C38
\* C38: every Slicer3d yielded by get_slices has on each axis end - start equal
\* to image_part_size + 2 * image_part_margin and 0 <= start <= end <= volume
\* size.
C38_SlicersStayInsideVolume ==
    \A i \in 1..Len(slicing.yielded) : \A axis \in 1..3 :
        /\ slicing.yielded[i].end[axis] - slicing.yielded[i].start[axis]
               = slicing.image_part_size[axis] + (2 * slicing.image_part_margin[axis])
        /\ 0 <= slicing.yielded[i].start[axis]
        /\ slicing.yielded[i].start[axis] <= slicing.yielded[i].end[axis]
        /\ slicing.yielded[i].end[axis] <= slicing.volume_zyx[axis]

\* ------------------------------------------------------------------ C39
\* The voxels of the area of interest of a slicer that lie in the volume.
InterestOnAxis(slicer, axis) ==
    slicer.area_of_interest_start[axis]
        .. (Min(slicer.area_of_interest_end[axis], slicing.volume_zyx[axis]) - 1)

Interest(slicer) ==
    InterestOnAxis(slicer, 1) \X InterestOnAxis(slicer, 2) \X InterestOnAxis(slicer, 3)

\* C39: the areas of interest of the yielded slicers, clipped to the volume, are
\* pairwise disjoint and cover every voxel, each slicer's range from start to end
\* contains its clipped area of interest, and slicing with every slicer and
\* placing each slice in an empty volume reproduces the image.
C39_SliceAndStitchRoundTrip ==
    /\ \A i, j \in 1..Len(slicing.yielded) :
           i # j => Interest(slicing.yielded[i]) \cap Interest(slicing.yielded[j]) = {}
    /\ \A i \in 1..Len(slicing.yielded) : \A axis \in 1..3 :
           InterestOnAxis(slicing.yielded[i], axis)
               \subseteq slicing.yielded[i].start[axis] .. (slicing.yielded[i].end[axis] - 1)
    /\ slicing.raised = "none"
    /\ (slicing.done /\ slicing.pending = NoSlicer /\ slicing.volume_zyx # <<>>)
       => /\ UNION {Interest(slicing.yielded[i]) : i \in 1..Len(slicing.yielded)}
                 = Cells(slicing.volume_zyx)
          /\ slicing.stitched = ImageOf(slicing.volume_zyx)
====
